---- MODULE Spec2Model ----
(***************************************************************************)
(* Model of the talons repository.                                         *)
(*                                                                         *)
(*  Part I  - the instance lifecycle manager of claw-backend               *)
(*            (routes/instances.ts, services/instanceManager.ts,           *)
(*            services/docker.ts, the Instance table of the migration).    *)
(*            Every HTTP request is a process; every `await` of a handler  *)
(*            is a step boundary, so handlers interleave exactly where     *)
(*            the Node event loop lets them.                               *)
(*            HandleSpec: the status, start and stop routes on Instance    *)
(*            rows with and without container handle.                      *)
(*  Part II - the GatewayClient of claw-android (ui/theme/Theme.kt).       *)
(*            GatewaySpec: handshake, method calls, teardown.              *)
(*            SilentServerSpec: the handshake against a server that never  *)
(*            answers, with fair scheduling of the client's coroutines.    *)
(*            EventSpec: event frames and sequence tracking.               *)
(*            OrderedEventSpec: the same against a server that numbers its *)
(*            event frames consecutively.                                  *)
(*            StrayResponseSpec: GatewaySpec with unsolicited responses.   *)
(*            TeardownRaceSpec: GatewaySpec with fair scheduling.          *)
(*  Part III - executeInContainer of claw-backend (services/docker.ts),    *)
(*            ExecSpec.                                                    *)
(*  Part IV - the configuration of an instance (services/                  *)
(*            configGenerator.ts, the config route, createInstance).       *)
(*            MaterializeSpec: generateConfig and the key and provider     *)
(*            choice of createInstance, as functions of tier and options.  *)
(*            ConfigSpec: PUT /:instanceId/config and updateInstanceConfig *)
(*            on one instance.                                             *)
(***************************************************************************)
EXTENDS Integers, Sequences, FiniteSets, Bags, TLC

(***************************************************************************)
(* Bounds of the model.                                                    *)
(***************************************************************************)
\* number of HTTP requests issued in one behaviour
MaxReq == 3
\* number of requests being served at the same time
MaxInFlight == 2
\* number of tenants (authenticated user ids)
MaxUsers == 2
\* size of the port pool; docker.ts reads it from the environment
MAX_CONTAINERS == 2

\* docker.ts:58, the default of process.env.BASE_PORT
BASE_PORT == 20000

\* number of external events one behaviour of the gateway client sees: calls of
\* connect, disconnect and sendMethod, frames from the server, socket closes and failures
MaxEvents == 6
\* number of message coroutines (launched by onMessage) alive at the same time
MaxTasks == 1
\* the sequence numbers the server puts on event frames: 1..MaxSeq
MaxSeq == 3
\* number of event frames being handled at the same time
MaxHandlers == 2
\* largest value of the retries parameter of executeInContainer
MaxAttempts == 3
\* number of PUT /:instanceId/config requests in one behaviour
MaxUpdates == 2

Reqs == 1..MaxReq
Callers == 1..MaxEvents
Ids == 1..MaxEvents
NoSock == 0
NoSeq == 0
Seqs == 1..MaxSeq
NoDeferred == [st |-> "none", payload |-> 0, cause |-> ""]
IdleCaller == [pc |-> "idle", id |-> 0, ws |-> 0, payload |-> 0, cause |-> ""]
Users == 1..MaxUsers
Ports == BASE_PORT..(BASE_PORT + MAX_CONTAINERS - 1)
NoPort == 0
NoId == 0
Updates == 1..MaxUpdates
\* A JavaScript value that is undefined or absent from its object.
Undefined == "undefined"
\* process.env.OPENROUTER_FREE_KEY, the operator's pooled key.
OPENROUTER_FREE_KEY == "pool-key"
\* An API key a tenant supplies (opts.apiKey, body.apiKey).
UserKey == "user-key"
\* randomBytes(32).toString('hex') of createInstance.
GatewayToken == "gateway-token"
\* A bot token a tenant supplies for a channel.
BotToken == "bot-token"
IdleExec == [pc |-> "idle", retries |-> 0, i |-> 0, hist |-> <<>>, execs |-> 0, execAt |-> 0, out |-> 0, err |-> ""]

VARIABLES
    \* ---- Part I ----
    db,          \* the Instance table: a sequence of rows, the row's id is its index
    containers,  \* the container runtime: a sequence of containers, id = index
    req,         \* the HTTP requests: handler position, locals and response
    lastCreated, \* per tenant: id returned by the last completed create, NoId after a delete
    \* ---- Part II ----
    connState,   \* _connectionState.value
    webSocket,   \* the webSocket field: NoSock (null) or the socket of the last connect()
    sock,        \* the sockets created by connect(), in order: phase, close() called, teardown
                 \* callback, whether a connect.challenge has arrived on it, the seq of
                 \* the last event frame of a server that numbers its frames in order
    sent,        \* the request frames that reached the server
    nIds,        \* number of request ids generated (UUID.randomUUID(): every id is fresh)
    pending,     \* pendingRequests: the ids in the table
    deferred,    \* the CompletableDeferred registered under each id
    tasks,       \* the coroutines launched by onMessage that have not finished
    nEvents,     \* number of external events so far
    hsWait,      \* the handshake continuations suspended in deferred.await()
    caller,      \* the sendMethod calls: position, id, captured socket, outcome
    disc,        \* position of the disconnect() call in progress
    lastSeq,     \* the lastSeq field: NoSeq (null) or the seq of the last event handled
    emitted,     \* the bag of HelloOk and SeqGap notifications emitted on _events
    \* ---- Part III ----
    ex,          \* the executeInContainer call: loop index, position, observations, outcome
    \* ---- Part IV ----
    mat,         \* one materialization: tier, options, generateConfig's document and the
                 \* provider, key and onboarding flags of createInstance
    file,        \* /home/node/.openclaw/openclaw.json in the instance's container
    snapshot,    \* Instance.configJson, the JSON text as the set of its members
    restarts,    \* number of container.restart() calls that succeeded
    up           \* the config update requests: position, body, documents, outcome

imVars == <<db, containers, req, lastCreated>>
gwVars == <<connState, webSocket, sock, sent, nIds, pending, deferred, tasks, nEvents, hsWait, caller, disc, lastSeq, emitted>>
exVars == <<ex>>
cfVars == <<mat, file, snapshot, restarts, up>>
vars == <<db, containers, req, lastCreated, connState, webSocket, sock, sent, nIds, pending, deferred, tasks, nEvents, hsWait, caller, disc, lastSeq, emitted, ex, mat, file, snapshot, restarts, up>>

(***************************************************************************)
(* Part I.  Persistence layer and container runtime.                       *)
(***************************************************************************)

\* The rows of the Instance table whose status is not DELETED.
ActiveIds == {i \in 1..Len(db) : db[i].status # "DELETED"}

\* prisma.instance.findFirst({ where: { userId, status: { not: 'DELETED' } } }):
\* the candidate rows; without orderBy the database returns any one of them.
FindActiveByUser(u) == {i \in ActiveIds : db[i].userId = u}

\* prisma.instance.findFirst({ where: { id, userId } }): no filter on status.
FindByIdAndUser(i, u) == {j \in 1..Len(db) : j = i /\ db[j].userId = u}

\* getUsedDockerPorts: the published ports of every container the runtime lists
\* (listContainers({ all: true })).
getUsedDockerPorts == {containers[c].port : c \in {k \in 1..Len(containers) : containers[k].state # "removed"}}

\* The ports recorded against non-deleted instances (usedDbPorts).
usedDbPorts == {db[i].dockerPort : i \in ActiveIds}

\* An allocation that hands out the first port of the pool when none is free.
LowestFree_NeverFails(usedDocker, usedDb) ==
    LET free == {p \in Ports : p \notin usedDocker /\ p \notin usedDb}
    IN  IF free = {} THEN BASE_PORT ELSE CHOOSE p \in free : \A q \in free : p <= q

\* The loop of getAvailablePort: the lowest port of the pool in neither set, NoPort when
\* the loop falls through to the throw.
LowestFree(usedDocker, usedDb) ==
    LET free == {p \in Ports : p \notin usedDocker /\ p \notin usedDb}
    IN  IF free = {} THEN NoPort ELSE CHOOSE p \in free : \A q \in free : p <= q

\* The insert check with the unique index on dockerPort dropped.
UniquePortOk_NoIndex(port) == TRUE

\* CREATE UNIQUE INDEX "Instance_dockerPort_key" ON "Instance"("dockerPort"):
\* an insert is accepted only when no row at all, deleted or not, holds the port.
UniquePortOk(port) == \A i \in 1..Len(db) : db[i].dockerPort # port

\* The runtime refuses to start a container whose host port is bound by another
\* running container.
PortBoundByOther(c) ==
    \E k \in 1..Len(containers) : k # c /\ containers[k].state = "running" /\ containers[k].port = containers[c].port

\* container.start() can succeed: the container exists and is not running
\* (dockerode rejects 304 "container already started" and 404).
CanStart(c) == c \in 1..Len(containers) /\ containers[c].state \in {"created", "exited"} /\ ~PortBoundByOther(c)

\* container.stop() can succeed: the container is running
\* (dockerode rejects 304 "container already stopped" and 404).
CanStop(c) == c \in 1..Len(containers) /\ containers[c].state = "running"

\* container.remove() can succeed: the container exists and is not running.
CanRemove(c) == c \in 1..Len(containers) /\ containers[c].state \in {"created", "exited"}

SetState(c, s) == [containers EXCEPT ![c].state = s]

IdleReq == [kind |-> "none", user |-> 0, target |-> NoId, pc |-> "idle", used |-> {}, port |-> NoPort, cid |-> NoId, inst |-> NoId, seen |-> "none", resp |-> "none", rid |-> NoId, expect |-> NoId, err |-> "", rt |-> FALSE, running |-> FALSE, cstatus |-> ""]

\* The lifecycle manager at start: no Instance row, no container, no request.
InitManager ==
    /\ db = <<>>
    /\ containers = <<>>
    /\ req = [r \in Reqs |-> IdleReq]
    /\ lastCreated = [u \in Users |-> NoId]

\* A GatewayClient as constructed.
InitGateway ==
    /\ connState = "Disconnected"
    /\ webSocket = NoSock
    /\ sock = <<>>
    /\ sent = {}
    /\ nIds = 0
    /\ pending = {}
    /\ deferred = [i \in Ids |-> NoDeferred]
    /\ tasks = {}
    /\ nEvents = 0
    /\ hsWait = {}
    /\ caller = [c \in Callers |-> IdleCaller]
    /\ disc = "idle"
    /\ lastSeq = NoSeq
    /\ emitted = EmptyBag

\* No executeInContainer call has been made.
InitExec == ex = IdleExec

\* A channel section that is absent from a document.
NoChannel == [enabled |-> FALSE, cred |-> Undefined, dmPolicy |-> Undefined, groupPolicy |-> Undefined]

\* The document {}: what readContainerConfig returns when it finds no JSON.
EmptyDoc == [telegram |-> NoChannel, discord |-> NoChannel, bind |-> Undefined, token |-> Undefined, provider |-> Undefined, apiKey |-> Undefined, primary |-> Undefined]

\* openclaw.json does not exist in the container (the first boot has not written it).
NoFile == [exists |-> FALSE, parses |-> FALSE, doc |-> EmptyDoc]

\* A ClawConfig with no member: model, apiKey, provider, channels.telegram.botToken,
\* channels.discord.botToken.
CfgFields == {"model", "apiKey", "provider", "telegram", "discord"}
EmptyConfig == [f \in CfgFields |-> Undefined]

IdleMat == [pc |-> "idle", tier |-> "", opts |-> EmptyConfig, cfg |-> EmptyDoc, boot |-> [provider |-> Undefined, apiKey |-> Undefined, choice |-> "", flag |-> "", key |-> Undefined]]
IdleUpdate == [pc |-> "idle", merged |-> EmptyConfig, existing |-> EmptyDoc, doc |-> EmptyDoc, before |-> {}, readOk |-> FALSE, wrote |-> FALSE, persisted |-> FALSE, restarted |-> FALSE, resp |-> "none"]

\* No instance has been configured and no config request has been made.
InitConfigIdle ==
    /\ mat = IdleMat
    /\ file = NoFile
    /\ snapshot = {}
    /\ restarts = 0
    /\ up = [k \in Updates |-> IdleUpdate]

Init == InitManager /\ InitGateway /\ InitExec /\ InitConfigIdle

\* A request finishes: its response and the instance id it carries.
Finish(r, resp, rid) == [req EXCEPT ![r].pc = "done", ![r].resp = resp, ![r].rid = rid]

\* True while a delete request of tenant u is being served.
DeleteInFlight(u) == \E q \in Reqs : req[q].kind = "delete" /\ req[q].user = u /\ req[q].pc # "done"

\* A client issues request r: POST / (create), GET /:id (status), POST /:id/start,
\* POST /:id/stop or DELETE /:id, authenticated as tenant u (middleware/auth.ts sets
\* req.userId).
Issue(r, kind, u, target) ==
    /\ req[r].pc = "idle"
    /\ \A q \in Reqs : q < r => req[q].pc # "idle"
    /\ Cardinality({q \in Reqs : req[q].pc \notin {"idle", "done"}}) < MaxInFlight
    \* tenants are interchangeable: tenant u sends its first request after tenant u - 1 did
    /\ \A v \in Users : v < u => \E q \in Reqs : req[q].user = v
    /\ req' = [q \in Reqs |->
                 IF q = r
                 THEN [IdleReq EXCEPT !.kind = kind, !.user = u, !.target = target,
                                      !.pc = CASE kind = "create" -> "c_find"
                                               [] kind = "start" -> "s_find"
                                               [] kind = "stop" -> "p_find"
                                               [] kind = "status" -> "g_find"
                                               [] OTHER -> "d_find",
                                      !.expect = IF kind = "create" /\ ~DeleteInFlight(u) THEN lastCreated[u] ELSE NoId]
                 ELSE IF kind = "delete" /\ req[q].user = u THEN [req[q] EXCEPT !.expect = NoId]
                 ELSE req[q]]
    /\ lastCreated' = IF kind = "delete" THEN [lastCreated EXCEPT ![u] = NoId] ELSE lastCreated
    /\ UNCHANGED <<db, containers>>
    /\ UNCHANGED <<gwVars, exVars, cfVars>>

\* instancesRouter.post('/'): the findFirst for an existing non-deleted instance.
CreateFind(r) ==
    /\ req[r].pc = "c_find"
    /\ IF FindActiveByUser(req[r].user) # {}
       THEN \E i \in FindActiveByUser(req[r].user) :
                /\ req' = Finish(r, "200", i)
                /\ lastCreated' = IF DeleteInFlight(req[r].user) THEN lastCreated ELSE [lastCreated EXCEPT ![req[r].user] = i]
       ELSE /\ req' = [req EXCEPT ![r].pc = "c_dports"]
            /\ UNCHANGED lastCreated
    /\ UNCHANGED <<db, containers>>
    /\ UNCHANGED <<gwVars, exVars, cfVars>>

\* getAvailablePort, first await: the runtime's listing answers.
CreateDockerPorts(r) ==
    /\ req[r].pc = "c_dports"
    /\ req' = [req EXCEPT ![r].pc = "c_dbports", ![r].used = getUsedDockerPorts]
    /\ UNCHANGED <<db, containers, lastCreated>>
    /\ UNCHANGED <<gwVars, exVars, cfVars>>

\* getAvailablePort, first await: the runtime is unreachable, the handler answers 500.
CreateDockerPortsFail(r) ==
    /\ req[r].pc = "c_dports"
    /\ req' = Finish(r, "500", NoId)
    /\ UNCHANGED <<db, containers, lastCreated>>
    /\ UNCHANGED <<gwVars, exVars, cfVars>>

\* getAvailablePort, second await and the loop: the port, or 'No available ports'.
CreateDbPorts(r) ==
    /\ req[r].pc = "c_dbports"
    /\ LET port == LowestFree(req[r].used, usedDbPorts)
       IN  req' = IF port = NoPort
                  THEN [Finish(r, "500", NoId) EXCEPT ![r].used = {}, ![r].err = "No available ports"]
                  ELSE [req EXCEPT ![r].pc = "c_container", ![r].port = port, ![r].used = {}]
    /\ UNCHANGED <<db, containers, lastCreated>>
    /\ UNCHANGED <<gwVars, exVars, cfVars>>

\* docker.createContainer with the port binding; the container is created, not started.
CreateContainer(r) ==
    /\ req[r].pc = "c_container"
    /\ containers' = Append(containers, [port |-> req[r].port, state |-> "created"])
    /\ req' = [req EXCEPT ![r].pc = "c_start", ![r].cid = Len(containers) + 1]
    /\ UNCHANGED <<db, lastCreated>>
    /\ UNCHANGED <<gwVars, exVars, cfVars>>

\* docker.createContainer throws: the handler answers 500.
CreateContainerFail(r) ==
    /\ req[r].pc = "c_container"
    /\ req' = Finish(r, "500", NoId)
    /\ UNCHANGED <<db, containers, lastCreated>>
    /\ UNCHANGED <<gwVars, exVars, cfVars>>

\* container.start() of createInstance.
CreateStart(r) ==
    /\ req[r].pc = "c_start"
    /\ CanStart(req[r].cid)
    /\ containers' = SetState(req[r].cid, "running")
    /\ req' = [req EXCEPT ![r].pc = "c_persist"]
    /\ UNCHANGED <<db, lastCreated>>
    /\ UNCHANGED <<gwVars, exVars, cfVars>>

\* container.start() throws (port already allocated, runtime error): 500, and the
\* created container stays behind.
CreateStartFail(r) ==
    /\ req[r].pc = "c_start"
    /\ req' = Finish(r, "500", NoId)
    /\ UNCHANGED <<db, containers, lastCreated>>
    /\ UNCHANGED <<gwVars, exVars, cfVars>>

\* prisma.instance.create with status RUNNING, then res.status(201); a violation of
\* the unique index on dockerPort throws and the handler answers 500.
CreatePersist(r) ==
    /\ req[r].pc = "c_persist"
    /\ IF UniquePortOk(req[r].port)
       THEN /\ db' = Append(db, [userId |-> req[r].user, containerId |-> req[r].cid, dockerPort |-> req[r].port, status |-> "RUNNING"])
            /\ req' = Finish(r, "201", Len(db) + 1)
            /\ lastCreated' = IF DeleteInFlight(req[r].user) THEN lastCreated ELSE [lastCreated EXCEPT ![req[r].user] = Len(db) + 1]
       ELSE /\ req' = Finish(r, "500", NoId)
            /\ UNCHANGED <<db, lastCreated>>
    /\ UNCHANGED containers
    /\ UNCHANGED <<gwVars, exVars, cfVars>>

\* The findFirst({ where: { id, userId } }) that opens the status, start, stop and
\* delete handlers: 404 when no row matches, else the row (seen: its status as read) is
\* handed to the service function.
FindTarget(r) ==
    /\ req[r].pc \in {"s_find", "p_find", "d_find", "g_find"}
    /\ req' = IF FindByIdAndUser(req[r].target, req[r].user) = {}
              THEN Finish(r, "404", NoId)
              ELSE [req EXCEPT ![r].inst = req[r].target, ![r].seen = db[req[r].target].status,
                               ![r].pc = CASE req[r].pc = "s_find" -> "s_start"
                                           [] req[r].pc = "p_find" -> "p_stop"
                                           [] req[r].pc = "g_find" -> "g_status"
                                           [] OTHER -> "d_stop"]
    /\ UNCHANGED <<db, containers, lastCreated>>
    /\ UNCHANGED <<gwVars, exVars, cfVars>>

\* A service function whose check of the container handle never fires.
NoHandle_Never(i) == FALSE

\* `!instance.containerId` of startInstance, stopInstance and getInstanceStatus.
NoHandle(i) == db[i].containerId = NoId

\* The service function throws and the handler, which has no catch, fails the request:
\* 'No container attached' before the runtime is called, else the error of the runtime
\* call that was made.
ServiceThrows(r) ==
    IF NoHandle(req[r].inst)
    THEN [Finish(r, "error", NoId) EXCEPT ![r].err = "No container attached"]
    ELSE [Finish(r, "error", NoId) EXCEPT ![r].err = "runtime", ![r].rt = TRUE]

\* startInstance: container.start() succeeds.
StartContainer(r) ==
    /\ req[r].pc = "s_start"
    /\ ~NoHandle(req[r].inst)
    /\ CanStart(db[req[r].inst].containerId)
    /\ containers' = SetState(db[req[r].inst].containerId, "running")
    /\ req' = [req EXCEPT ![r].pc = "s_persist", ![r].rt = TRUE]
    /\ UNCHANGED <<db, lastCreated>>
    /\ UNCHANGED <<gwVars, exVars, cfVars>>

\* startInstance throws ('No container attached', or container.start() fails); the
\* handler has no catch, the request fails.
StartContainerFail(r) ==
    /\ req[r].pc = "s_start"
    /\ req' = ServiceThrows(r)
    /\ UNCHANGED <<db, containers, lastCreated>>
    /\ UNCHANGED <<gwVars, exVars, cfVars>>

\* startInstance: prisma.instance.update({ status: 'RUNNING' }) and the answer.
StartPersist(r) ==
    /\ req[r].pc = "s_persist"
    /\ db' = [db EXCEPT ![req[r].inst].status = "RUNNING"]
    /\ req' = Finish(r, "ok", req[r].inst)
    /\ UNCHANGED <<containers, lastCreated>>
    /\ UNCHANGED <<gwVars, exVars, cfVars>>

\* stopInstance: container.stop() succeeds.
StopContainer(r) ==
    /\ req[r].pc = "p_stop"
    /\ ~NoHandle(req[r].inst)
    /\ CanStop(db[req[r].inst].containerId)
    /\ containers' = SetState(db[req[r].inst].containerId, "exited")
    /\ req' = [req EXCEPT ![r].pc = "p_persist", ![r].rt = TRUE]
    /\ UNCHANGED <<db, lastCreated>>
    /\ UNCHANGED <<gwVars, exVars, cfVars>>

\* stopInstance throws; the handler has no catch, the request fails.
StopContainerFail(r) ==
    /\ req[r].pc = "p_stop"
    /\ req' = ServiceThrows(r)
    /\ UNCHANGED <<db, containers, lastCreated>>
    /\ UNCHANGED <<gwVars, exVars, cfVars>>

\* stopInstance: prisma.instance.update({ status: 'STOPPED' }) and the answer.
StopPersist(r) ==
    /\ req[r].pc = "p_persist"
    /\ db' = [db EXCEPT ![req[r].inst].status = "STOPPED"]
    /\ req' = Finish(r, "ok", req[r].inst)
    /\ UNCHANGED <<containers, lastCreated>>
    /\ UNCHANGED <<gwVars, exVars, cfVars>>

\* getInstanceStatus with the try/catch around inspect left out: the error reaches
\* the handler and the request fails.
StatusCaught_Uncaught(r) == [Finish(r, "error", NoId) EXCEPT ![r].err = "runtime", ![r].rt = TRUE]

\* getInstanceStatus when container.inspect() throws: the catch returns
\* { running: false, containerStatus: 'not-found' } and the handler answers with it.
StatusCaught(r) ==
    [Finish(r, "200", req[r].inst) EXCEPT ![r].running = FALSE, ![r].cstatus = "not-found", ![r].err = "inspect", ![r].rt = TRUE]

\* getInstanceStatus on an Instance with no container handle: the early return.
StatusNoContainer(r) ==
    /\ req[r].pc = "g_status"
    /\ NoHandle(req[r].inst)
    /\ req' = [Finish(r, "200", req[r].inst) EXCEPT ![r].running = FALSE, ![r].cstatus = "no-container"]
    /\ UNCHANGED <<db, containers, lastCreated>>
    /\ UNCHANGED <<gwVars, exVars, cfVars>>

\* getInstanceStatus: container.inspect() answers; running is info.State.Running and
\* containerStatus is info.State.Status.
StatusInspect(r) ==
    /\ req[r].pc = "g_status"
    /\ ~NoHandle(req[r].inst)
    /\ db[req[r].inst].containerId \in 1..Len(containers)
    /\ containers[db[req[r].inst].containerId].state # "removed"
    /\ req' = [Finish(r, "200", req[r].inst) EXCEPT
                  ![r].running = (containers[db[req[r].inst].containerId].state = "running"),
                  ![r].cstatus = containers[db[req[r].inst].containerId].state,
                  ![r].rt = TRUE]
    /\ UNCHANGED <<db, containers, lastCreated>>
    /\ UNCHANGED <<gwVars, exVars, cfVars>>

\* getInstanceStatus: container.inspect() throws (no such container, runtime
\* unavailable).
StatusInspectFail(r) ==
    /\ req[r].pc = "g_status"
    /\ ~NoHandle(req[r].inst)
    /\ req' = StatusCaught(r)
    /\ UNCHANGED <<db, containers, lastCreated>>
    /\ UNCHANGED <<gwVars, exVars, cfVars>>

\* deleteInstance with the try/catch around stop and remove left out: the error
\* reaches the handler and the request fails before the update.
DeleteCaught_Uncaught(r) == Finish(r, "error", NoId)

\* deleteInstance when container.stop() or container.remove() throws inside the try
\* block: the catch logs the error and the update follows.
DeleteCaught(r) == [req EXCEPT ![r].pc = "d_persist"]

\* deleteInstance: container.stop() succeeds, remove is next.
DeleteStop(r) ==
    /\ req[r].pc = "d_stop"
    /\ db[req[r].inst].containerId # NoId
    /\ CanStop(db[req[r].inst].containerId)
    /\ containers' = SetState(db[req[r].inst].containerId, "exited")
    /\ req' = [req EXCEPT ![r].pc = "d_remove"]
    /\ UNCHANGED <<db, lastCreated>>
    /\ UNCHANGED <<gwVars, exVars, cfVars>>

\* deleteInstance: container.stop() throws.
DeleteStopFail(r) ==
    /\ req[r].pc = "d_stop"
    /\ req' = DeleteCaught(r)
    /\ UNCHANGED <<db, containers, lastCreated>>
    /\ UNCHANGED <<gwVars, exVars, cfVars>>

\* deleteInstance: container.remove() succeeds.
DeleteRemove(r) ==
    /\ req[r].pc = "d_remove"
    /\ CanRemove(db[req[r].inst].containerId)
    /\ containers' = SetState(db[req[r].inst].containerId, "removed")
    /\ req' = [req EXCEPT ![r].pc = "d_persist"]
    /\ UNCHANGED <<db, lastCreated>>
    /\ UNCHANGED <<gwVars, exVars, cfVars>>

\* deleteInstance: container.remove() throws; the catch logs it.
DeleteRemoveFail(r) ==
    /\ req[r].pc = "d_remove"
    /\ req' = DeleteCaught(r)
    /\ UNCHANGED <<db, containers, lastCreated>>
    /\ UNCHANGED <<gwVars, exVars, cfVars>>

\* deleteInstance: prisma.instance.update({ status: 'DELETED' }), then
\* res.json({ success: true }).
DeletePersist(r) ==
    /\ req[r].pc = "d_persist"
    /\ db' = [db EXCEPT ![req[r].inst].status = "DELETED"]
    /\ req' = Finish(r, "success", req[r].inst)
    /\ UNCHANGED <<containers, lastCreated>>
    /\ UNCHANGED <<gwVars, exVars, cfVars>>

Next ==
    \/ \E r \in Reqs, u \in Users : Issue(r, "create", u, NoId)
    \/ \E r \in Reqs, u \in Users, i \in 1..Len(db) : Issue(r, "start", u, i)
    \/ \E r \in Reqs, u \in Users, i \in 1..Len(db) : Issue(r, "stop", u, i)
    \/ \E r \in Reqs, u \in Users, i \in 1..Len(db) : Issue(r, "delete", u, i)
    \/ \E r \in Reqs : CreateFind(r)
    \/ \E r \in Reqs : CreateDockerPorts(r)
    \/ \E r \in Reqs : CreateDockerPortsFail(r)
    \/ \E r \in Reqs : CreateDbPorts(r)
    \/ \E r \in Reqs : CreateContainer(r)
    \/ \E r \in Reqs : CreateContainerFail(r)
    \/ \E r \in Reqs : CreateStart(r)
    \/ \E r \in Reqs : CreateStartFail(r)
    \/ \E r \in Reqs : CreatePersist(r)
    \/ \E r \in Reqs : FindTarget(r)
    \/ \E r \in Reqs : StartContainer(r)
    \/ \E r \in Reqs : StartContainerFail(r)
    \/ \E r \in Reqs : StartPersist(r)
    \/ \E r \in Reqs : StopContainer(r)
    \/ \E r \in Reqs : StopContainerFail(r)
    \/ \E r \in Reqs : StopPersist(r)
    \/ \E r \in Reqs : DeleteStop(r)
    \/ \E r \in Reqs : DeleteStopFail(r)
    \/ \E r \in Reqs : DeleteRemove(r)
    \/ \E r \in Reqs : DeleteRemoveFail(r)
    \/ \E r \in Reqs : DeletePersist(r)

Spec == Init /\ [][Next]_vars

\* The Instance rows the service functions can be handed.  The schema allows a row
\* without container handle ("containerId" TEXT, nullable; "status" defaults to
\* PENDING); a row written by createInstance has a handle, and its container may since
\* have exited or have been removed from the runtime.
HandleRows ==
    {[userId |-> 1, containerId |-> NoId, dockerPort |-> BASE_PORT, status |-> "PENDING"]}
        \cup {[userId |-> 1, containerId |-> 1, dockerPort |-> BASE_PORT, status |-> s] : s \in {"RUNNING", "STOPPED"}}

\* One Instance row of tenant 1 and, when it has a handle, its container.
InitHandle ==
    /\ \E row \in HandleRows, st \in {"running", "exited", "removed"} :
          /\ db = <<row>>
          /\ containers = IF row.containerId = NoId THEN <<>> ELSE <<[port |-> BASE_PORT, state |-> st]>>
    /\ req = [r \in Reqs |-> IdleReq]
    /\ lastCreated = [u \in Users |-> NoId]
    /\ InitGateway
    /\ InitExec
    /\ InitConfigIdle

\* The status, start and stop routes on that Instance.
HandleNext ==
    \/ \E r \in Reqs, u \in Users, i \in 1..Len(db) : Issue(r, "status", u, i)
    \/ \E r \in Reqs, u \in Users, i \in 1..Len(db) : Issue(r, "start", u, i)
    \/ \E r \in Reqs, u \in Users, i \in 1..Len(db) : Issue(r, "stop", u, i)
    \/ \E r \in Reqs : FindTarget(r)
    \/ \E r \in Reqs : StatusNoContainer(r)
    \/ \E r \in Reqs : StatusInspect(r)
    \/ \E r \in Reqs : StatusInspectFail(r)
    \/ \E r \in Reqs : StartContainer(r)
    \/ \E r \in Reqs : StartContainerFail(r)
    \/ \E r \in Reqs : StartPersist(r)
    \/ \E r \in Reqs : StopContainer(r)
    \/ \E r \in Reqs : StopContainerFail(r)
    \/ \E r \in Reqs : StopPersist(r)

HandleSpec == InitHandle /\ [][HandleNext]_vars

(***************************************************************************)
(* Part I.  Claims.                                                        *)
(***************************************************************************)

\* The create requests that hold a port from getAvailablePort and have neither
\* persisted their Instance nor failed.
HoldingPort == {r \in Reqs : req[r].kind = "create" /\ req[r].pc \in {"c_container", "c_start", "c_persist"}}

\* C1: no reachable state holds two persisted Instances, both with a status other
\* than DELETED, whose dockerPort is equal.
C1_PortsUniqueAmongActive ==
    \A i, j \in ActiveIds : i # j => db[i].dockerPort # db[j].dockerPort

\* C1 witness: two creates of distinct tenants were handed the same port, one
\* persisted its Instance and the other started its container on that port too and
\* was turned away at the insert.
C1_Witness ==
    \E r1, r2 \in Reqs :
        /\ req[r1].kind = "create" /\ req[r2].kind = "create"
        /\ req[r1].user # req[r2].user
        /\ req[r1].port = req[r2].port /\ req[r1].port # NoPort
        /\ req[r1].resp = "201" /\ req[r1].rid \in ActiveIds
        /\ req[r2].resp = "500" /\ req[r2].cid # NoId /\ containers[req[r2].cid].state = "running"

\* C2: while one createInstance call holds port p (obtained from getAvailablePort,
\* Instance neither persisted nor failed), no other createInstance call holds p.
C2_AllocationSerialized ==
    \A r1, r2 \in HoldingPort : r1 # r2 => req[r1].port # req[r2].port

\* C3: every tenant owns at most one Instance whose status is not DELETED.
C3_OneActivePerTenant ==
    \A i, j \in ActiveIds : i # j => db[i].userId # db[j].userId

\* C4: a create request issued for tenant t after a create for t completed, with no
\* delete in between, returns the Instance with the same id, allocates no port and
\* creates no container.
C4_CreateIdempotent ==
    \A r \in Reqs :
        (req[r].kind = "create" /\ req[r].pc = "done" /\ req[r].expect # NoId)
            => (req[r].resp = "200" /\ req[r].rid = req[r].expect /\ req[r].port = NoPort /\ req[r].cid = NoId)

\* C5: a delete request that found its Instance always ends with the persisted status
\* DELETED and answers success, whatever the stop and remove steps did.
C5_DeleteAlwaysSucceeds ==
    [][\A r \in Reqs :
          (req[r].kind = "delete" /\ req[r].inst # NoId /\ req[r].pc # "done" /\ req'[r].pc = "done")
              => (req'[r].resp = "success" /\ db'[req[r].inst].status = "DELETED")]_vars

\* C5 witness: a delete has answered success and the record is DELETED although the
\* container was not removed (the stop or the remove step failed).
C5_Witness ==
    \E r \in Reqs :
        /\ req[r].kind = "delete" /\ req[r].pc = "done" /\ req[r].resp = "success"
        /\ db[req[r].inst].status = "DELETED"
        /\ containers[db[req[r].inst].containerId].state \in {"running", "exited"}

\* C6: DELETED is terminal: a start, stop or delete request that finds the Instance
\* already DELETED never changes the record, so the status never becomes RUNNING or
\* STOPPED again.
C6_DeletedIsTerminal ==
    [][\A r \in Reqs : (req[r].seen = "DELETED" /\ req'[r] # req[r]) => db' = db]_vars

\* The create requests whose getAvailablePort finds every port of the pool in the
\* runtime's listing or recorded against a non-deleted Instance, in this step.
FindsNoPort == {r \in Reqs : req[r].pc = "c_dbports" /\ req'[r] # req[r] /\ Ports \subseteq (req[r].used \cup usedDbPorts)}

\* C20: when getAvailablePort finds no free port, the create fails (500) and changes
\* nothing: the request has created no container and persisted no Instance, and no row
\* and no container is added.
C20_ExhaustionChangesNothing ==
    [][\A r \in FindsNoPort :
          /\ req'[r].pc = "done" /\ req'[r].resp = "500" /\ req'[r].rid = NoId
          /\ req[r].cid = NoId /\ req'[r].cid = NoId /\ req'[r].port = NoPort
          /\ db' = db /\ containers' = containers]_vars

\* C20 witness: a create has failed with 'No available ports' while every port of the
\* pool is held; it has no container and no Instance.
C20_Witness ==
    \E r \in Reqs :
        /\ req[r].kind = "create" /\ req[r].pc = "done"
        /\ req[r].resp = "500" /\ req[r].err = "No available ports"
        /\ req[r].cid = NoId /\ req[r].rid = NoId
        /\ \A i \in ActiveIds : db[i].userId # req[r].user

\* The create requests that fail in this step after getAvailablePort handed them a
\* port: docker.createContainer, container.start() or prisma.instance.create threw.
FailsAfterAllocation ==
    {r \in Reqs : req[r].kind = "create" /\ req[r].port # NoPort /\ req[r].pc # "done" /\ req'[r].pc = "done" /\ req'[r].resp = "500"}

\* C21: when a step of createInstance after getAvailablePort fails, then afterwards
\* either no container of the call is left holding the binding of the allocated port,
\* or the port is recorded against a persisted Instance with status ERROR.
C21_FailureReleasesPort ==
    [][\A r \in FailsAfterAllocation :
          \/ req[r].cid = NoId
          \/ containers'[req[r].cid].state = "removed"
          \/ \E i \in 1..Len(db') : db'[i].dockerPort = req[r].port /\ db'[i].status = "ERROR"]_vars

\* The start and stop requests whose service function throws in this step.
StartStopThrows == {r \in Reqs : req[r].pc \in {"s_start", "p_stop"} /\ req'[r].pc = "done"}

\* C22: startInstance and stopInstance on an Instance with no container handle fail
\* with 'No container attached' without a call to the container runtime and without a
\* change of the record; when the start or stop call of the runtime fails, the
\* persisted record is unchanged too.
C22_NoContainerAttached ==
    [][/\ \A r \in Reqs :
            (req[r].pc \in {"s_start", "p_stop"} /\ db[req[r].inst].containerId = NoId /\ req'[r] # req[r])
                => (r \in StartStopThrows /\ req'[r].err = "No container attached" /\ ~req'[r].rt)
       /\ \A r \in StartStopThrows :
            /\ req'[r].resp = "error"
            /\ db' = db /\ containers' = containers]_vars

\* C22 witness: a start and a stop of the Instance without handle have both failed
\* with 'No container attached', the row still PENDING.
C22_Witness ==
    \E r1, r2 \in Reqs :
        /\ req[r1].kind = "start" /\ req[r2].kind = "stop"
        /\ req[r1].pc = "done" /\ req[r2].pc = "done"
        /\ req[r1].err = "No container attached" /\ req[r2].err = "No container attached"
        /\ ~req[r1].rt /\ ~req[r2].rt
        /\ db[1].containerId = NoId /\ db[1].status = "PENDING"

\* C22 second witness: the runtime's stop call failed on an Instance with a handle and
\* the status is still what it was.
C22_RuntimeFailureSeen ==
    \E r \in Reqs :
        /\ req[r].kind = "stop" /\ req[r].pc = "done" /\ req[r].err = "runtime" /\ req[r].rt
        /\ db[req[r].inst].status = req[r].seen

\* The status requests that answer in this step.
StatusAnswers == {r \in Reqs : req[r].pc = "g_status" /\ req'[r].pc = "done"}

\* C23: getInstanceStatus never raises and never writes the record: without handle it
\* returns running = false, 'no-container' and makes no runtime call; when inspect
\* fails it returns running = false; running = true is returned only for a container
\* the runtime reports running.
C23_StatusFailsSoft ==
    [][\A r \in StatusAnswers :
          /\ req'[r].resp = "200"
          /\ db' = db /\ containers' = containers
          /\ db[req[r].inst].containerId = NoId => (~req'[r].running /\ req'[r].cstatus = "no-container" /\ ~req'[r].rt)
          /\ req'[r].err = "inspect" => ~req'[r].running
          /\ req'[r].running => (db[req[r].inst].containerId # NoId /\ containers[db[req[r].inst].containerId].state = "running")]_vars

\* C23 witness: the status of an Instance whose container is gone from the runtime
\* was asked: inspect failed and the answer is 200 with running = false, 'not-found'.
C23_Witness ==
    \E r \in Reqs :
        /\ req[r].kind = "status" /\ req[r].pc = "done" /\ req[r].resp = "200"
        /\ req[r].err = "inspect" /\ ~req[r].running /\ req[r].cstatus = "not-found"
        /\ containers[db[req[r].inst].containerId].state = "removed"

\* No request that works on Instance i is being served.
Quiescent(i) == \A r \in Reqs : req[r].pc \in {"idle", "done"} \/ (req[r].target # i /\ req[r].inst # i)

\* C36: whenever no lifecycle operation is in flight for an Instance with a container,
\* status RUNNING implies that its container is running and status STOPPED that it is
\* not, also after concurrent start and stop requests on the Instance (the runtime of
\* this specification changes a container only when the manager tells it to).
C36_StatusAgreesWithContainer ==
    \A i \in 1..Len(db) :
        (db[i].containerId # NoId /\ Quiescent(i)) =>
            /\ db[i].status = "RUNNING" => containers[db[i].containerId].state = "running"
            /\ db[i].status = "STOPPED" => containers[db[i].containerId].state # "running"

\* The creates that reach prisma.instance.create in this step holding a port that only
\* DELETED rows hold, the container of each of them removed.
PersistsReclaimedPort ==
    {r \in Reqs :
        /\ req[r].pc = "c_persist" /\ req'[r].pc = "done"
        /\ \E i \in 1..Len(db) : db[i].dockerPort = req[r].port
        /\ \A i \in 1..Len(db) :
              db[i].dockerPort = req[r].port =>
                  (db[i].status = "DELETED" /\ containers[db[i].containerId].state = "removed")}

\* C37: a create that getAvailablePort handed the port of a deleted Instance, whose
\* container was removed, completes: its persist step adds the row and answers 201.
C37_DeletedPortReusable ==
    [][\A r \in PersistsReclaimedPort :
          /\ Len(db') = Len(db) + 1
          /\ db'[Len(db')].dockerPort = req[r].port
          /\ req'[r].resp = "201"]_vars

\* The deletes whose container.stop() throws in this step although the container exists
\* and is not running, so that container.remove() would succeed.
StopFailsRemovable ==
    {r \in Reqs :
        /\ req[r].pc = "d_stop" /\ req'[r].pc # "d_stop"
        /\ containers' = containers
        /\ db[req[r].inst].containerId # NoId
        /\ containers[db[req[r].inst].containerId].state \in {"created", "exited"}}

\* C38: when the stop step of deleteInstance fails on a container that exists and can
\* be removed, the remove step is still attempted: the delete goes on to
\* container.remove() and not straight to the update.
C38_RemoveAttemptedAfterStopFails ==
    [][\A r \in StopFailsRemovable : req'[r].pc = "d_remove"]_vars

(***************************************************************************)
(* Part II.  GatewayClient (Theme.kt, lines 338-606).                      *)
(* Threads: the application (connect, disconnect), the callers of          *)
(* sendMethod, the reader thread of every socket (onOpen, onMessage,       *)
(* onFailure, onClosed), one coroutine per received message                *)
(* (scope.launch in onMessage) and the handshake continuation launched by  *)
(* sendConnectRequest.  Statements of different threads interleave.        *)
(***************************************************************************)

Socks == 1..Len(sock)

\* WebSocket.send delivers the frame unless close() was called on the socket or the
\* socket has closed or failed (send then returns false and the frame is dropped).
CanSend(s) == s \in Socks /\ sock[s].phase \in {"connecting", "open"} /\ ~sock[s].closeCalled

\* ws.send(frame.toString()) of a request frame.
SendFrame(s, id, method) == IF CanSend(s) THEN sent \cup {[sock |-> s, id |-> id, method |-> method]} ELSE sent

\* What the server puts in the payload of its ok response to request id.
ServerPayload(id) == 100 + id

\* A completion that replaces the outcome of a deferred already completed.
Complete_Overwrite(d, id, payload) == [d EXCEPT ![id] = [st |-> "ok", payload |-> payload, cause |-> ""]]

\* deferred.complete(payload): only the first completion of a deferred counts.
Complete(d, id, payload) ==
    IF d[id].st = "wait" THEN [d EXCEPT ![id] = [st |-> "ok", payload |-> payload, cause |-> ""]] ELSE d

\* deferred.completeExceptionally(cause) for every id of a set.
CompleteExceptionally(d, ids, cause) ==
    [i \in Ids |-> IF i \in ids /\ d[i].st = "wait" THEN [st |-> "err", payload |-> 0, cause |-> cause] ELSE d[i]]

\* A lookup that hands out the oldest outstanding awaiter whatever the frame's id.
LookupAwaiter_Oldest(id) ==
    IF pending = {} THEN NoId ELSE CHOOSE i \in pending : \A j \in pending : i <= j

\* handleResponse: pendingRequests.remove(id), NoId when the table has no such key.
LookupAwaiter(id) == IF id \in pending THEN id ELSE NoId

\* A flush that clears the table without failing the awaiters.
FlushComplete_ClearOnly(cause) == deferred

\* flushPendingErrors: pendingRequests.values.forEach { it.completeExceptionally(cause) }.
FlushComplete(cause) == CompleteExceptionally(deferred, pending, cause)

\* The guard with the connection-state check left out.
NotConnected_SocketOnly == webSocket = NoSock

\* sendMethod: the two guards that throw IllegalStateException.
NotConnected == webSocket = NoSock \/ connState # "Connected"

\* connect(url, token): returns at once unless the state is Disconnected or Error;
\* else state Connecting and a new socket, kept in webSocket.
Connect ==
    /\ connState \notin {"Connecting", "WaitingForChallenge", "Authenticating", "Connected"}
    /\ disc = "idle"
    /\ nEvents < MaxEvents
    /\ nEvents' = nEvents + 1
    /\ connState' = "Connecting"
    /\ sock' = Append(sock, [phase |-> "connecting", closeCalled |-> FALSE, tpc |-> "none", challenged |-> FALSE, seqSent |-> NoSeq])
    /\ webSocket' = Len(sock) + 1
    /\ UNCHANGED <<sent, nIds, pending, deferred, tasks, hsWait, caller, disc>>
    /\ UNCHANGED <<lastSeq, emitted>>
    /\ UNCHANGED <<imVars, exVars, cfVars>>

\* WebSocketListener.onOpen of socket s.
OnOpen(s) ==
    /\ sock[s].phase = "connecting"
    /\ sock' = [sock EXCEPT ![s].phase = "open"]
    /\ connState' = "WaitingForChallenge"
    /\ UNCHANGED <<webSocket, sent, nIds, pending, deferred, tasks, nEvents, hsWait, caller, disc>>
    /\ UNCHANGED <<lastSeq, emitted>>
    /\ UNCHANGED <<imVars, exVars, cfVars>>

\* The server sends a frame on socket s; onMessage launches a coroutine for it.
Receive(s, type, id, ok) ==
    /\ sock[s].phase = "open"
    /\ nEvents < MaxEvents
    /\ Cardinality(tasks) < MaxTasks
    /\ nEvents' = nEvents + 1
    /\ tasks' = tasks \cup {[sock |-> s, type |-> type, id |-> id, ok |-> ok, pc |-> "start", reqid |-> NoId, seq |-> NoSeq, prev |-> NoSeq]}
    /\ sock' = IF type = "challenge" THEN [sock EXCEPT ![s].challenged = TRUE] ELSE sock
    /\ UNCHANGED <<connState, webSocket, sent, nIds, pending, deferred, hsWait, caller, disc>>
    /\ UNCHANGED <<lastSeq, emitted>>
    /\ UNCHANGED <<imVars, exVars, cfVars>>

\* The server pushes the connect.challenge event.
ReceiveChallenge(s) == Receive(s, "challenge", NoId, TRUE)

\* The server answers a request it received on socket s.
ReceiveResponse(s, id, ok) ==
    /\ \E f \in sent : f.sock = s /\ f.id = id
    /\ Receive(s, "res", id, ok)

\* handleEvent, "connect.challenge": state Authenticating, then sendConnectRequest up
\* to ws.send(frame): a fresh id, the connect frame goes out on the event's socket.
HandleChallengeSend(t) ==
    /\ t \in tasks /\ t.type = "challenge" /\ t.pc = "start"
    /\ connState' = "Authenticating"
    /\ nIds' = nIds + 1
    /\ sent' = SendFrame(t.sock, nIds + 1, "connect")
    /\ tasks' = (tasks \ {t}) \cup {[t EXCEPT !.pc = "register", !.reqid = nIds + 1]}
    /\ UNCHANGED <<webSocket, sock, pending, deferred, nEvents, hsWait, caller, disc>>
    /\ UNCHANGED <<lastSeq, emitted>>
    /\ UNCHANGED <<imVars, exVars, cfVars>>

\* sendConnectRequest after the send: the deferred is put in the table and the
\* continuation that awaits it is launched.
HandleChallengeRegister(t) ==
    /\ t \in tasks /\ t.type = "challenge" /\ t.pc = "register"
    /\ pending' = pending \cup {t.reqid}
    /\ deferred' = [deferred EXCEPT ![t.reqid] = [st |-> "wait", payload |-> 0, cause |-> ""]]
    /\ hsWait' = hsWait \cup {t.reqid}
    /\ tasks' = tasks \ {t}
    /\ UNCHANGED <<connState, webSocket, sock, sent, nIds, nEvents, caller, disc>>
    /\ UNCHANGED <<lastSeq, emitted>>
    /\ UNCHANGED <<imVars, exVars, cfVars>>

\* An error response that fails every awaiter of the table.
FailedByResponse_All(a) == pending

\* handleResponse, ok=false: deferred.completeExceptionally(GatewayException(...)) on
\* the one deferred removed from the table.
FailedByResponse(a) == {a}

\* handleResponse: the awaiter is removed from the table and completed with the
\* payload (ok) or with a GatewayException (not ok); a frame without awaiter is dropped.
HandleResponse(t) ==
    /\ t \in tasks /\ t.type = "res"
    /\ LET a == LookupAwaiter(t.id)
       IN  /\ pending' = pending \ {a}
           /\ deferred' = IF a = NoId THEN deferred
                          ELSE IF t.ok THEN Complete(deferred, a, ServerPayload(t.id))
                          ELSE CompleteExceptionally(deferred, FailedByResponse(a), "GatewayException")
    /\ tasks' = tasks \ {t}
    /\ UNCHANGED <<connState, webSocket, sock, sent, nIds, nEvents, hsWait, caller, disc>>
    /\ UNCHANGED <<lastSeq, emitted>>
    /\ UNCHANGED <<imVars, exVars, cfVars>>

\* GatewayEvent.HelloOk(payload) and GatewayEvent.SeqGap(expected, received).
HelloOk(payload) == [type |-> "HelloOk", payload |-> payload]
SeqGap(expected, received) == [type |-> "SeqGap", expected |-> expected, received |-> received]

\* _events.emit(e): one more copy of e in the bag of emitted notifications.
Emit(e) == emitted (+) SetToBag({e})

\* A continuation that takes the success branch however the deferred was completed.
AwaitReturned_Always(id) == TRUE

\* deferred.await() returns the value (try branch) instead of throwing (catch branch).
AwaitReturned(id) == deferred[id].st = "ok"

\* The continuation of sendConnectRequest resumes from deferred.await(): Connected and
\* HelloOk(payload) on a payload, Error("Handshake failed") on an exception.
HandshakeResume(id) ==
    /\ id \in hsWait
    /\ deferred[id].st \in {"ok", "err"}
    /\ connState' = IF AwaitReturned(id) THEN "Connected" ELSE "Error"
    /\ hsWait' = hsWait \ {id}
    /\ emitted' = IF AwaitReturned(id) THEN Emit(HelloOk(deferred[id].payload)) ELSE emitted
    /\ UNCHANGED <<webSocket, sock, sent, nIds, pending, deferred, tasks, nEvents, caller, disc, lastSeq>>
    /\ UNCHANGED <<imVars, exVars, cfVars>>

\* sendMethod is called: the two guards; a call that passes keeps the socket it read.
SendMethodCheck(c) ==
    /\ caller[c].pc = "idle"
    /\ \A b \in Callers : b < c => caller[b].pc # "idle"
    /\ nEvents < MaxEvents
    /\ nEvents' = nEvents + 1
    /\ caller' = IF NotConnected
                 THEN [caller EXCEPT ![c].pc = "thrown",
                                     ![c].cause = IF webSocket = NoSock THEN "Not connected to gateway"
                                                  ELSE "Gateway not in Connected state"]
                 ELSE [caller EXCEPT ![c].pc = "register", ![c].ws = webSocket]
    /\ UNCHANGED <<connState, webSocket, sock, sent, nIds, pending, deferred, tasks, hsWait, disc>>
    /\ UNCHANGED <<lastSeq, emitted>>
    /\ UNCHANGED <<imVars, exVars, cfVars>>

\* sendMethod: a fresh id and pendingRequests[id] = deferred.
SendMethodRegister(c) ==
    /\ caller[c].pc = "register"
    /\ nIds' = nIds + 1
    /\ pending' = pending \cup {nIds + 1}
    /\ deferred' = [deferred EXCEPT ![nIds + 1] = [st |-> "wait", payload |-> 0, cause |-> ""]]
    /\ caller' = [caller EXCEPT ![c].pc = "send", ![c].id = nIds + 1]
    /\ UNCHANGED <<connState, webSocket, sock, sent, tasks, nEvents, hsWait, disc>>
    /\ UNCHANGED <<lastSeq, emitted>>
    /\ UNCHANGED <<imVars, exVars, cfVars>>

\* sendMethod: ws.send(frame.toString()), then the caller suspends in deferred.await().
SendMethodSend(c) ==
    /\ caller[c].pc = "send"
    /\ sent' = SendFrame(caller[c].ws, caller[c].id, "method")
    /\ caller' = [caller EXCEPT ![c].pc = "await"]
    /\ UNCHANGED <<connState, webSocket, sock, nIds, pending, deferred, tasks, nEvents, hsWait, disc>>
    /\ UNCHANGED <<lastSeq, emitted>>
    /\ UNCHANGED <<imVars, exVars, cfVars>>

\* sendMethod: deferred.await() resumes with the payload or rethrows the exception.
SendMethodResume(c) ==
    /\ caller[c].pc = "await"
    /\ deferred[caller[c].id].st \in {"ok", "err"}
    /\ caller' = [caller EXCEPT ![c].pc = IF deferred[caller[c].id].st = "ok" THEN "returned" ELSE "thrown",
                                ![c].payload = deferred[caller[c].id].payload,
                                ![c].cause = deferred[caller[c].id].cause]
    /\ UNCHANGED <<connState, webSocket, sock, sent, nIds, pending, deferred, tasks, nEvents, hsWait, disc>>
    /\ UNCHANGED <<lastSeq, emitted>>
    /\ UNCHANGED <<imVars, exVars, cfVars>>

\* disconnect(): webSocket?.close(1000, ...), webSocket = null, state Disconnected.
Disconnect ==
    /\ disc = "idle"
    /\ nEvents < MaxEvents
    /\ nEvents' = nEvents + 1
    /\ sock' = IF webSocket = NoSock THEN sock ELSE [sock EXCEPT ![webSocket].closeCalled = TRUE]
    /\ webSocket' = NoSock
    /\ connState' = "Disconnected"
    /\ disc' = "iter"
    /\ UNCHANGED <<sent, nIds, pending, deferred, tasks, hsWait, caller>>
    /\ UNCHANGED <<lastSeq, emitted>>
    /\ UNCHANGED <<imVars, exVars, cfVars>>

\* disconnect(): flushPendingErrors, the forEach over the table's values.
DisconnectFlush ==
    /\ disc = "iter"
    /\ deferred' = FlushComplete("Disconnected")
    /\ disc' = "clear"
    /\ UNCHANGED <<connState, webSocket, sock, sent, nIds, pending, tasks, nEvents, hsWait, caller>>
    /\ UNCHANGED <<lastSeq, emitted>>
    /\ UNCHANGED <<imVars, exVars, cfVars>>

\* disconnect(): flushPendingErrors, pendingRequests.clear(); then lastSeq = null and
\* disconnect() returns.
DisconnectClear ==
    /\ disc = "clear"
    /\ pending' = {}
    /\ disc' = "idle"
    /\ lastSeq' = NoSeq
    /\ UNCHANGED <<connState, webSocket, sock, sent, nIds, deferred, tasks, nEvents, hsWait, caller, emitted>>
    /\ UNCHANGED <<imVars, exVars, cfVars>>

\* WebSocketListener.onFailure of socket s: state Error, then the flush.
OnFailure(s) ==
    /\ sock[s].phase \in {"connecting", "open"}
    /\ nEvents < MaxEvents
    /\ nEvents' = nEvents + 1
    /\ sock' = [sock EXCEPT ![s].phase = "failed", ![s].tpc = "iter"]
    /\ connState' = "Error"
    /\ UNCHANGED <<webSocket, sent, nIds, pending, deferred, tasks, hsWait, caller, disc>>
    /\ UNCHANGED <<lastSeq, emitted>>
    /\ UNCHANGED <<imVars, exVars, cfVars>>

\* WebSocketListener.onClosed of socket s (the server closed, or the close started by
\* disconnect() completed): state Disconnected, then the flush.
OnClosed(s) ==
    /\ sock[s].phase = "open"
    /\ nEvents < MaxEvents
    /\ nEvents' = nEvents + 1
    /\ sock' = [sock EXCEPT ![s].phase = "closed", ![s].tpc = "iter"]
    /\ connState' = "Disconnected"
    /\ UNCHANGED <<webSocket, sent, nIds, pending, deferred, tasks, hsWait, caller, disc>>
    /\ UNCHANGED <<lastSeq, emitted>>
    /\ UNCHANGED <<imVars, exVars, cfVars>>

\* onFailure / onClosed: flushPendingErrors, the forEach over the table's values.
SocketFlush(s) ==
    /\ sock[s].tpc = "iter"
    /\ deferred' = FlushComplete(IF sock[s].phase = "failed" THEN "SocketFailure" ELSE "ConnectionClosed")
    /\ sock' = [sock EXCEPT ![s].tpc = "clear"]
    /\ UNCHANGED <<connState, webSocket, sent, nIds, pending, tasks, nEvents, hsWait, caller, disc>>
    /\ UNCHANGED <<lastSeq, emitted>>
    /\ UNCHANGED <<imVars, exVars, cfVars>>

\* onFailure / onClosed: flushPendingErrors, pendingRequests.clear().
SocketClear(s) ==
    /\ sock[s].tpc = "clear"
    /\ pending' = {}
    /\ sock' = [sock EXCEPT ![s].tpc = "done"]
    /\ UNCHANGED <<connState, webSocket, sent, nIds, deferred, tasks, nEvents, hsWait, caller, disc>>
    /\ UNCHANGED <<lastSeq, emitted>>
    /\ UNCHANGED <<imVars, exVars, cfVars>>

GatewayNext ==
    \/ Connect
    \/ Disconnect
    \/ DisconnectFlush
    \/ DisconnectClear
    \/ \E s \in Socks : OnOpen(s)
    \/ \E s \in Socks : ReceiveChallenge(s)
    \/ \E s \in Socks, id \in Ids, ok \in BOOLEAN : ReceiveResponse(s, id, ok)
    \/ \E s \in Socks : OnFailure(s)
    \/ \E s \in Socks : OnClosed(s)
    \/ \E s \in Socks : SocketFlush(s)
    \/ \E s \in Socks : SocketClear(s)
    \/ \E t \in tasks : HandleChallengeSend(t)
    \/ \E t \in tasks : HandleChallengeRegister(t)
    \/ \E t \in tasks : HandleResponse(t)
    \/ \E id \in Ids : HandshakeResume(id)
    \/ \E c \in Callers : SendMethodCheck(c)
    \/ \E c \in Callers : SendMethodRegister(c)
    \/ \E c \in Callers : SendMethodSend(c)
    \/ \E c \in Callers : SendMethodResume(c)

GatewaySpec == Init /\ [][GatewayNext]_vars

\* An id no request of this client carries (every request id is a fresh UUID).
UnknownId == MaxEvents + 1

\* The server sends a response frame nobody asked for on socket s: its id is empty
\* (NoId) or unknown. onMessage launches a coroutine for it.
ReceiveUnsolicited(s, id, ok) ==
    /\ id \in {NoId, UnknownId}
    /\ Receive(s, "res", id, ok)

\* The client against a server that also sends unsolicited responses; a second
\* response to a request is one of the server's moves already.
StrayResponseNext ==
    \/ GatewayNext
    \/ \E s \in Socks, id \in {NoId, UnknownId}, ok \in BOOLEAN : ReceiveUnsolicited(s, id, ok)

StrayResponseSpec == Init /\ [][StrayResponseNext]_vars

(***************************************************************************)
(* Part II.  Claims.                                                       *)
(***************************************************************************)

\* The sendMethod calls suspended in deferred.await().
Awaiting == {c \in Callers : caller[c].pc = "await"}

\* The causes flushPendingErrors is called with.
TeardownCauses == {"Disconnected", "SocketFailure", "ConnectionClosed"}

FlushVisits == (disc = "iter" /\ disc' = "clear") \/ \E s \in Socks : sock[s].tpc = "iter" /\ sock'[s].tpc = "clear"
FlushClears == (disc = "clear" /\ disc' = "idle") \/ \E s \in Socks : sock[s].tpc = "clear" /\ sock'[s].tpc = "done"

\* C8: when a teardown flushes, every awaiter in the table at that moment is completed
\* exceptionally and stays so, and when the teardown has been processed the table is
\* empty.
C8_TeardownFailsOutstanding ==
    [][/\ FlushVisits => \A i \in pending : deferred'[i].st = "err"
       /\ FlushClears => pending' = {}
       /\ \A i \in Ids : deferred[i].st = "err" => deferred'[i] = deferred[i]]_vars

\* C8 witness: a sendMethod call was outstanding at a teardown, has been thrown the
\* teardown's cause, and the table is empty.
C8_Witness ==
    /\ pending = {}
    /\ disc = "idle"
    /\ \E c \in Callers : caller[c].pc = "thrown" /\ caller[c].cause \in TeardownCauses

\* C9: from disconnect() until the next connect() (the webSocket field is null in
\* between) the connection state stays Disconnected: no socket callback and no
\* handshake continuation moves it to Error, Authenticating or Connected.
C9_StaysDisconnected == webSocket = NoSock => connState \notin {"Error", "Authenticating", "Connected"}

\* C10: a sendMethod call made while the state is not Connected throws at once, sends
\* no frame and adds no entry to the pending-request table.
C10_NotConnectedFailsFast ==
    [][\A c \in Callers :
          (caller[c].pc = "idle" /\ caller'[c].pc # "idle" /\ connState # "Connected")
              => (caller'[c].pc = "thrown" /\ caller'[c].id = NoId /\ sent' = sent /\ pending' = pending /\ deferred' = deferred)]_vars

\* C10 witness: connect(), then a sendMethod call before the challenge arrived: it was
\* thrown 'Gateway not in Connected state', nothing was sent or registered.
C10_Witness ==
    /\ connState = "WaitingForChallenge"
    /\ nEvents = 2 /\ sent = {} /\ pending = {} /\ nIds = 0
    /\ caller[1].pc = "thrown" /\ caller[1].cause = "Gateway not in Connected state"

\* A connect request went out on socket s.
ConnectSentOn(s) == \E f \in sent : f.sock = s /\ f.method = "connect"

\* Socket s is the client's current socket, it is open and the server has not yet
\* pushed a connect.challenge on it.
AwaitingChallenge(s) == webSocket = s /\ sock[s].phase = "open" /\ ~sock[s].challenged

\* C11: on every connection no connect request is sent before a connect.challenge has
\* been received on that socket, and from the socket's open until the challenge the
\* connection state is WaitingForChallenge.
C11_HandshakeOrdering ==
    \A s \in Socks :
        /\ ConnectSentOn(s) => sock[s].challenged
        /\ AwaitingChallenge(s) => (connState = "WaitingForChallenge" /\ ~ConnectSentOn(s))

\* The first two parts of C11 alone: onOpen sends nothing and leaves the state
\* WaitingForChallenge, and a connect request goes out only on a challenged socket.
C11_OrderingOfFrames ==
    /\ \A s \in Socks : ConnectSentOn(s) => sock[s].challenged
    /\ \A s \in Socks : AwaitingChallenge(s) => ~ConnectSentOn(s)

\* Request id was sent as a connect request.
ConnectId(id) == \E f \in sent : f.id = id /\ f.method = "connect"

\* The handshake of connect request id has succeeded: its continuation has resumed
\* from deferred.await() with a payload.
HandshakeSucceeded(id) == ConnectId(id) /\ deferred[id].st = "ok" /\ id \notin hsWait

HandshakeRejectedOn(s) ==
    \E id \in Ids :
        /\ [sock |-> s, id |-> id, method |-> "connect"] \in sent
        /\ deferred[id].st = "err" /\ deferred[id].cause = "GatewayException"
        /\ id \notin hsWait

\* C13: once the connect request of a connection has been answered with ok=false, the
\* state never is Connected for that connection (while its socket is the current one).
C13_RejectedNeverConnected ==
    \A s \in Socks : (webSocket = s /\ HandshakeRejectedOn(s)) => connState # "Connected"

\* The first part of C13 alone: the continuation of a connect request whose awaiter was
\* completed exceptionally sets the state to Error.
C13_RejectionSetsError ==
    [][\A id \in hsWait \ hsWait' : deferred[id].st = "err" => connState' = "Error"]_vars

(***************************************************************************)
(* The client against a server that pushes challenges but never answers a  *)
(* request and never closes or breaks the socket.  The steps the client    *)
(* takes by itself (launched coroutines, the rest of a disconnect() call   *)
(* in progress) are scheduled fairly; calls of connect and disconnect and  *)
(* the server's frames may or may not happen.                              *)
(***************************************************************************)
SilentServerNext ==
    \/ Connect
    \/ Disconnect
    \/ DisconnectFlush
    \/ DisconnectClear
    \/ \E s \in Socks : OnOpen(s)
    \/ \E s \in Socks : ReceiveChallenge(s)
    \/ \E t \in tasks : HandleChallengeSend(t)
    \/ \E t \in tasks : HandleChallengeRegister(t)
    \/ \E id \in Ids : HandshakeResume(id)

\* Dispatchers.IO runs every launched coroutine and every resumed continuation; a
\* disconnect() call in progress runs to its end.
ClientFairness ==
    /\ WF_vars(DisconnectFlush)
    /\ WF_vars(DisconnectClear)
    /\ WF_vars(\E t \in tasks : HandleChallengeSend(t))
    /\ WF_vars(\E t \in tasks : HandleChallengeRegister(t))
    /\ WF_vars(\E id \in Ids : HandshakeResume(id))

SilentServerSpec == Init /\ [][SilentServerNext]_vars /\ ClientFairness

\* The connect request of the current socket has been sent and registered, the socket
\* is open and the state is Authenticating.
HandshakePending ==
    /\ webSocket # NoSock
    /\ sock[webSocket].phase = "open"
    /\ connState = "Authenticating"
    /\ \E id \in hsWait : [sock |-> webSocket, id |-> id, method |-> "connect"] \in sent

\* C14: when the connect request has been sent and no response ever comes while the
\* socket stays open, the state eventually becomes Error (unless the application
\* disconnects). Stated for the moments at which further events are still possible, so
\* that a behaviour in which the client waits for ever is the client's own doing.
C14_HandshakeTimesOut ==
    (HandshakePending /\ nEvents < MaxEvents) ~> (connState = "Error" \/ webSocket = NoSock)

(***************************************************************************)
(* Sequence tracking (handleEvent, lines 444-452).  Every event frame is   *)
(* handled by its own coroutine: it reads lastSeq, emits SeqGap when the   *)
(* frame's seq is beyond the next expected one, and writes lastSeq.        *)
(* Notifications other than HelloOk and SeqGap are not recorded.           *)
(***************************************************************************)

\* A gap test that leaves out the null check of prev.
IsGap_NoNullCheck(prev, seq) == seq > prev + 1

\* if (prev != null && seq > prev + 1)
IsGap(prev, seq) == prev # NoSeq /\ seq > prev + 1

\* The coroutine onMessage launches for an event frame with sequence number seq.
EventTask(s, seq) == [sock |-> s, type |-> "event", id |-> NoId, ok |-> TRUE, pc |-> "start", reqid |-> NoId, seq |-> seq, prev |-> NoSeq]

\* The server pushes an event frame on socket s; seq = NoSeq is a frame without a seq
\* field. onMessage launches a coroutine for it. (A frame equal to one whose coroutine
\* has not started yet arrives after that coroutine has started.)
ReceiveEvent(s, seq) ==
    /\ sock[s].phase = "open"
    /\ nEvents < MaxEvents
    /\ Cardinality(tasks) < MaxHandlers
    /\ EventTask(s, seq) \notin tasks
    /\ nEvents' = nEvents + 1
    /\ tasks' = tasks \cup {EventTask(s, seq)}
    /\ UNCHANGED <<connState, webSocket, sock, sent, nIds, pending, deferred, hsWait, caller, disc>>
    /\ UNCHANGED <<lastSeq, emitted>>
    /\ UNCHANGED <<imVars, exVars, cfVars>>

\* handleEvent: json.has("seq"), val seq = json.getInt("seq"), val prev = lastSeq.
\* A frame without seq leaves the tracking alone.
HandleEventRead(t) ==
    /\ t \in tasks /\ t.type = "event" /\ t.pc = "start"
    /\ tasks' = IF t.seq = NoSeq THEN tasks \ {t}
                 ELSE (tasks \ {t}) \cup {[t EXCEPT !.pc = "track", !.prev = lastSeq]}
    /\ UNCHANGED <<connState, webSocket, sock, sent, nIds, pending, deferred, nEvents, hsWait, caller, disc>>
    /\ UNCHANGED <<lastSeq, emitted>>
    /\ UNCHANGED <<imVars, exVars, cfVars>>

\* handleEvent: the SeqGap notification when there is a gap, then lastSeq = seq.
HandleEventWrite(t) ==
    /\ t \in tasks /\ t.type = "event" /\ t.pc = "track"
    /\ emitted' = IF IsGap(t.prev, t.seq) THEN Emit(SeqGap(t.prev + 1, t.seq)) ELSE emitted
    /\ lastSeq' = t.seq
    /\ tasks' = tasks \ {t}
    /\ UNCHANGED <<connState, webSocket, sock, sent, nIds, pending, deferred, nEvents, hsWait, caller, disc>>
    /\ UNCHANGED <<imVars, exVars, cfVars>>

EventNext ==
    \/ Connect
    \/ Disconnect
    \/ DisconnectFlush
    \/ DisconnectClear
    \/ \E s \in Socks : OnOpen(s)
    \/ \E s \in Socks, seq \in Seqs \cup {NoSeq} : ReceiveEvent(s, seq)
    \/ \E t \in tasks : HandleEventRead(t)
    \/ \E t \in tasks : HandleEventWrite(t)
    \/ \E s \in Socks : OnFailure(s)
    \/ \E s \in Socks : OnClosed(s)
    \/ \E s \in Socks : SocketFlush(s)
    \/ \E s \in Socks : SocketClear(s)

EventSpec == Init /\ [][EventNext]_vars

\* A server that numbers the event frames of a connection 1, 2, 3, ... pushes the next
\* one on socket s, and the network loses none: the frame's seq is one more than that
\* of the frame before it. onMessage launches a coroutine for it.
ReceiveNextEvent(s) ==
    /\ sock[s].phase = "open"
    /\ sock[s].seqSent < MaxSeq
    /\ nEvents < MaxEvents
    /\ Cardinality(tasks) < MaxHandlers
    /\ nEvents' = nEvents + 1
    /\ tasks' = tasks \cup {EventTask(s, sock[s].seqSent + 1)}
    /\ sock' = [sock EXCEPT ![s].seqSent = sock[s].seqSent + 1]
    /\ UNCHANGED <<connState, webSocket, sent, nIds, pending, deferred, hsWait, caller, disc>>
    /\ UNCHANGED <<lastSeq, emitted>>
    /\ UNCHANGED <<imVars, exVars, cfVars>>

\* The client against that server: every connection receives its events in order.
OrderedEventNext ==
    \/ Connect
    \/ Disconnect
    \/ DisconnectFlush
    \/ DisconnectClear
    \/ \E s \in Socks : OnOpen(s)
    \/ \E s \in Socks : ReceiveNextEvent(s)
    \/ \E t \in tasks : HandleEventRead(t)
    \/ \E t \in tasks : HandleEventWrite(t)
    \/ \E s \in Socks : OnFailure(s)
    \/ \E s \in Socks : OnClosed(s)
    \/ \E s \in Socks : SocketFlush(s)
    \/ \E s \in Socks : SocketClear(s)

OrderedEventSpec == Init /\ [][OrderedEventNext]_vars

\* The event handlers that finish their sequence tracking in this step.
Tracked == {t \in tasks \ tasks' : t.type = "event" /\ t.pc = "track"}

\* C15: a handler that found lastSeq = N (t.prev) for a frame with seq s emits exactly
\* one SeqGap(N+1, s) if s > N+1 and nothing if s = N+1 or lastSeq was null; lastSeq is
\* s when it has handled the frame; nothing else emits a notification.
C15_SeqGapDetection ==
    [][/\ \A t \in Tracked :
             /\ lastSeq' = t.seq
             /\ (t.prev # NoSeq /\ t.seq > t.prev + 1) => emitted' = emitted (+) SetToBag({SeqGap(t.prev + 1, t.seq)})
             /\ (t.prev = NoSeq \/ t.seq = t.prev + 1) => emitted' = emitted
       /\ emitted' # emitted => Tracked # {}]_vars

\* C15 witness: after lastSeq = 1 a frame with seq 3 was handled: one SeqGap(2, 3),
\* and lastSeq = 3.
C15_Witness ==
    /\ lastSeq = 3
    /\ tasks = {}
    /\ emitted = SetToBag({SeqGap(2, 3)})

\* The ids of the requests sent by sendMethod calls.
MethodIds == {caller[c].id : c \in Callers} \ {NoId}

\* The ok=false response frames for a registered method call whose handling ends in
\* this step.
MethodErrorHandled == {t \in tasks \ tasks' : t.type = "res" /\ ~t.ok /\ t.id \in MethodIds /\ t.id \in pending}

\* C16: handling an ok=false response for a method call fails the awaiter registered
\* under its id (unless a teardown completed it already) and nothing else: the
\* connection state, the socket and every other entry of the pending-request table are
\* unchanged.
C16_ErrorResponseIsLocal ==
    [][\A t \in MethodErrorHandled :
          /\ deferred[t.id].st = "wait" => deferred'[t.id] = [st |-> "err", payload |-> 0, cause |-> "GatewayException"]
          /\ deferred[t.id].st # "wait" => deferred'[t.id] = deferred[t.id]
          /\ \A i \in Ids \ {t.id} : deferred'[i] = deferred[i]
          /\ pending' = pending \ {t.id}
          /\ connState' = connState /\ webSocket' = webSocket /\ sock' = sock]_vars

\* C16 witness: two method calls were outstanding on a Connected client; one was
\* answered ok=false and has thrown the GatewayException, the other still waits in the
\* table, the state is Connected and the socket open.
C16_Witness ==
    /\ connState = "Connected"
    /\ webSocket # NoSock /\ sock[webSocket].phase = "open"
    /\ \E c1, c2 \in Callers :
           /\ caller[c1].pc = "thrown" /\ caller[c1].cause = "GatewayException"
           /\ caller[c2].pc = "await" /\ caller[c2].id \in pending /\ deferred[caller[c2].id].st = "wait"

\* Every step the client takes by itself is taken: a sendMethod call runs on from
\* statement to statement and resumes when its deferred is completed, every teardown
\* callback and every launched coroutine runs to its end.
CallFairness ==
    /\ ClientFairness
    /\ WF_vars(\E t \in tasks : HandleResponse(t))
    /\ \A s \in 1..MaxEvents : WF_vars(s \in Socks /\ SocketFlush(s))
    /\ \A s \in 1..MaxEvents : WF_vars(s \in Socks /\ SocketClear(s))
    /\ \A c \in Callers : WF_vars(SendMethodRegister(c))
    /\ \A c \in Callers : WF_vars(SendMethodSend(c))
    /\ \A c \in Callers : WF_vars(SendMethodResume(c))

\* The gateway client with its own steps scheduled fairly; the calls of the
\* application, the server and the network are under no obligation.
TeardownRaceSpec == Init /\ [][GatewayNext]_vars /\ CallFairness

\* The sendMethod calls that passed the Connected check and have not finished.
InFlight == {c \in Callers : caller[c].pc \in {"register", "send", "await"}}

\* The teardown of socket s has been processed to its end: the disconnect() that
\* closed it has returned, or its onClosed / onFailure callback has.
TornDown(s) == s \in Socks /\ ((sock[s].closeCalled /\ disc = "idle") \/ sock[s].tpc = "done")

\* C30: no awaiter is left pending by a race between a call and a teardown: a
\* sendMethod call that passed the Connected check and whose socket has been torn down
\* eventually returns or throws.
C30_NoAwaiterLeftPending ==
    \A c \in Callers : (c \in InFlight /\ TornDown(caller[c].ws)) ~> (caller[c].pc \in {"returned", "thrown"})

\* C31: for every request frame that went out (the connect request and every
\* sendMethod request) the awaiter had been put in the pending-request table when the
\* frame was sent: no frame is on the wire whose id was never registered.
C31_AwaiterRegisteredBeforeSend ==
    \A f \in sent : deferred[f.id].st # "none"

\* The client is on its first connection: one socket was ever created, it is the
\* current one and it is open.
FirstConnectionLive == Len(sock) = 1 /\ webSocket = 1 /\ sock[1].phase = "open"

\* The connect.challenge coroutines that run handleEvent in this step while the state
\* is Authenticating or Connected.
LateChallenges ==
    {t \in tasks \ tasks' : t.type = "challenge" /\ t.pc = "start" /\ connState \in {"Authenticating", "Connected"}}

\* C33: on a live connection at most one connect request is sent on the socket, the
\* state becomes Authenticating only from WaitingForChallenge, and a connect.challenge
\* handled while the state is Authenticating or Connected sends nothing and leaves the
\* state as it is.  (Stated for the first connection of a client, so that steps of
\* closed or replaced sockets play no part.)
C33_ConnectSentOnce ==
    [][FirstConnectionLive =>
          /\ Cardinality({f \in sent' : f.sock = 1 /\ f.method = "connect"}) <= 1
          /\ (connState' = "Authenticating" /\ connState # "Authenticating") => connState = "WaitingForChallenge"
          /\ \A t \in LateChallenges : sent' = sent /\ connState' = connState]_vars

\* A step taken by a callback of socket s (onOpen, onClosed, onFailure and their flush,
\* a message coroutine, the handshake continuation of a connect request sent on s)
\* while a newer socket is the client's current one.
StaleCallback(s) ==
    /\ s < webSocket /\ webSocket' = webSocket
    /\ \/ sock'[s].phase # sock[s].phase
       \/ sock'[s].tpc # sock[s].tpc
       \/ \E t \in tasks \ tasks' : t.sock = s
       \/ \E id \in hsWait \ hsWait' : \E f \in sent : f.id = id /\ f.sock = s

\* C35: once connect() has started a newer socket, no callback of an earlier socket
\* changes the connection state, lastSeq or the pending-request table.
C35_OldSocketTouchesNothing ==
    [][\A s \in Socks : StaleCallback(s) => (connState' = connState /\ lastSeq' = lastSeq /\ pending' = pending)]_vars

\* C34: at the moment connect() starts a new connection after an earlier one (ended by
\* disconnect(), by the server's close or by a socket failure), lastSeq is null.
C34_FreshSequencePerConnection ==
    [][(Len(sock') > Len(sock) /\ Len(sock) > 0) => (lastSeq = NoSeq /\ lastSeq' = NoSeq)]_vars

\* C32: when the server sends the events of a connection with consecutive sequence
\* numbers and none is lost, no SeqGap notification is ever emitted, and when every
\* frame received has been handled lastSeq is the sequence number of the last frame.
\* (Stated for the first connection of a client.)
C32_EventsHandledInOrder ==
    FirstConnectionLive =>
        /\ \A e \in BagToSet(emitted) : e.type # "SeqGap"
        /\ (\A t \in tasks : t.type # "event") => lastSeq = sock[1].seqSent

\* The response frames handled in this step whose id matches no entry of the
\* pending-request table.
Unmatched == {t \in tasks \ tasks' : t.type = "res" /\ t.id \notin pending}

\* C40: handling a response frame whose id matches no entry of the table (unknown id,
\* empty id, second response for an id already answered) changes neither the table, nor
\* any awaiter, nor the connection state, nor lastSeq; and no step changes the outcome
\* of an awaiter that has been completed.
C40_UnmatchedResponseIgnored ==
    [][/\ \A t \in Unmatched :
             pending' = pending /\ deferred' = deferred /\ connState' = connState /\ lastSeq' = lastSeq
       /\ \A i \in Ids : deferred[i].st \in {"ok", "err"} => deferred'[i] = deferred[i]]_vars

\* C40 witness: on the first connection the handshake has succeeded and one more
\* response frame has been received and handled (four events: connect, the challenge,
\* the response to the connect request and a response without awaiter); the state is
\* Connected, the table empty, the awaiter of the connect request completed once.
C40_Witness ==
    /\ connState = "Connected"
    /\ nEvents = 4 /\ nIds = 1 /\ tasks = {} /\ pending = {} /\ hsWait = {}
    /\ Len(sock) = 1 /\ webSocket = 1 /\ sock[1].phase = "open"
    /\ caller[1].pc = "idle"
    /\ deferred[1] = [st |-> "ok", payload |-> ServerPayload(1), cause |-> ""]

(***************************************************************************)
(* Part III.  executeInContainer (docker.ts, lines 104-151).               *)
(* One call: for (i = 0; i < retries; i++) { inspect; exec }.  The         *)
(* container runtime is the environment: inspect reports the container     *)
(* running, not running or restarting, or throws (409 conflict or a        *)
(* message with 'restarting', or any other error); the exec (create,       *)
(* start, read the stream) gives the output or throws likewise.            *)
(***************************************************************************)

Observations == {"running", "notRunning", "restarting", "conflict", "error"}
ExecOutcomes == {"output", "conflict", "error"}

\* What the command prints when it is run on the given attempt.
ExecOutput(attempt) == 100 + attempt

\* A check that only waits for a restarting container.
Transient_RestartingOnly(obs) == obs = "restarting"

\* if (!info.State.Running || info.State.Restarting)
Transient(obs) == obs \in {"notRunning", "restarting"}

\* A loop whose index does not advance.
NextIndex_Stuck(i) == i

\* i++ of the for loop.
NextIndex(i) == i + 1

\* continue: i++, then the loop test i < retries; when it fails the loop is left and
\* the function throws 'Failed to execute command in container after N attempts'.
Continue(e) ==
    IF NextIndex(e.i) < e.retries
    THEN [e EXCEPT !.i = NextIndex(e.i), !.pc = "inspect"]
    ELSE [e EXCEPT !.i = NextIndex(e.i), !.pc = "thrown", !.err = "ExecUnavailable"]

\* The catch block: a 409 (or 'restarting') error before the last attempt is retried,
\* every other error, and a 409 on the last attempt, is rethrown as it is.
Caught(e, kind) ==
    IF kind = "conflict" /\ e.i < e.retries - 1
    THEN Continue(e)
    ELSE [e EXCEPT !.pc = "thrown", !.err = IF kind = "conflict" THEN "Conflict" ELSE "RuntimeError"]

\* executeInContainer(containerId, cmd, retries) is called: i = 0 and the loop test.
ExecCall(n) ==
    /\ ex.pc = "idle"
    /\ ex' = IF 0 < n THEN [IdleExec EXCEPT !.pc = "inspect", !.retries = n]
              ELSE [IdleExec EXCEPT !.pc = "thrown", !.err = "ExecUnavailable"]
    /\ UNCHANGED <<imVars, gwVars, cfVars>>

\* await container.inspect() and the test of info.State (with the 3 s sleep).
ExecInspect(obs) ==
    /\ ex.pc = "inspect"
    /\ LET e == [ex EXCEPT !.hist = Append(ex.hist, [seen |-> obs, exec |-> "none"])]
       IN  ex' = IF obs \in {"conflict", "error"} THEN Caught(e, obs)
                 ELSE IF Transient(obs) THEN Continue(e)
                 ELSE [e EXCEPT !.pc = "exec"]
    /\ UNCHANGED <<imVars, gwVars, cfVars>>

\* container.exec, exec.start and the stream: the output is returned, or an error is
\* caught.
ExecRun(outcome) ==
    /\ ex.pc = "exec"
    /\ LET e == [ex EXCEPT !.hist[Len(ex.hist)].exec = outcome, !.execs = ex.execs + 1, !.execAt = ex.i + 1]
       IN  ex' = IF outcome = "output" THEN [e EXCEPT !.pc = "returned", !.out = ExecOutput(ex.i + 1)]
                 ELSE Caught(e, outcome)
    /\ UNCHANGED <<imVars, gwVars, cfVars>>

ExecNext ==
    \/ \E n \in 0..MaxAttempts : ExecCall(n)
    \/ \E obs \in Observations : ExecInspect(obs)
    \/ \E outcome \in ExecOutcomes : ExecRun(outcome)

ExecSpec == Init /\ [][ExecNext]_vars

(***************************************************************************)
(* Part III.  Claims.                                                      *)
(***************************************************************************)

\* The first k attempts observed the container not running or restarting.
TransientPrefix(k) == \A j \in 1..k : ex.hist[j].seen \in {"notRunning", "restarting"}

\* C17: when the container was observed not running or restarting on the first k
\* attempts (k < retries) and running on attempt k+1, the command is run once only, on
\* attempt k+1, and when that execution gives its output the call returns that output.
C17_SucceedsAfterTransient ==
    \A k \in 0..(ex.retries - 1) :
        (Len(ex.hist) = k + 1 /\ TransientPrefix(k) /\ ex.hist[k + 1].seen = "running")
            => /\ \A j \in 1..k : ex.hist[j].exec = "none"
               /\ ex.execs = IF ex.hist[k + 1].exec = "none" THEN 0 ELSE 1
               /\ ex.hist[k + 1].exec # "none" => ex.execAt = k + 1
               /\ ex.hist[k + 1].exec = "output" => (ex.pc = "returned" /\ ex.out = ExecOutput(k + 1))

\* C17 witness: restarting on the first two of three allowed attempts, then running:
\* the call has returned the third attempt's output.
C17_Witness ==
    /\ ex.pc = "returned" /\ ex.retries = 3
    /\ Len(ex.hist) = 3
    /\ ex.hist[1].seen = "restarting" /\ ex.hist[2].seen = "restarting" /\ ex.hist[3].seen = "running"
    /\ ex.execs = 1 /\ ex.out = ExecOutput(3)

\* Progress of a call: the attempts completed, then the position within the attempt.
Measure(e) == 3 * e.i + (CASE e.pc = "inspect" -> 0 [] e.pc = "exec" -> 1 [] OTHER -> 2)

\* C18: a call makes at most retries inspect attempts and at most retries exec
\* attempts, is inside the loop only while i < retries, and every step it takes moves
\* it forward, so it ends after at most retries attempts whatever it observes.
C18_BoundedAttempts ==
    /\ [](/\ Len(ex.hist) <= ex.retries
          /\ ex.execs <= ex.retries
          /\ ex.i <= ex.retries
          /\ ex.pc \in {"inspect", "exec"} => ex.i < ex.retries)
    /\ [][(ex' # ex /\ ex.pc # "idle") => (Measure(ex') > Measure(ex) /\ Measure(ex') <= 3 * ex.retries + 2)]_vars

\* C18 witness: a call with the largest retries has ended after exactly that many
\* attempts, having seen a restarting container, a 409 from inspect and a 409 from exec.
C18_Witness ==
    /\ ex.pc = "thrown" /\ ex.retries = MaxAttempts /\ Len(ex.hist) = MaxAttempts
    /\ \E a, b, c \in 1..MaxAttempts :
           /\ ex.hist[a].seen = "restarting"
           /\ ex.hist[b].seen = "conflict"
           /\ ex.hist[c].seen = "running" /\ ex.hist[c].exec = "conflict"

\* An attempt that met a transient condition: the container restarting or not
\* running, or a 409 conflict from inspect or from exec.
AttemptTransient(a) == a.seen \in {"notRunning", "restarting", "conflict"} \/ (a.seen = "running" /\ a.exec = "conflict")

\* C19: a call that gave up after retries attempts that all met a transient condition
\* has thrown the exec-unavailable error.
C19_ExhaustionIsExecUnavailable ==
    (/\ ex.pc = "thrown"
     /\ Len(ex.hist) = ex.retries
     /\ \A j \in 1..Len(ex.hist) : AttemptTransient(ex.hist[j]))
        => ex.err = "ExecUnavailable"

(***************************************************************************)
(* Part IV.  Configuration (configGenerator.ts, lines 364-558; the config  *)
(* route; createInstance, instanceManager.ts lines 48-86 and 118-128).     *)
(***************************************************************************)

Tiers == {"FREE", "PRO", "PREMIUM"}
ModelNames == {"anthropic/claude", "openai/gpt", "gpt-4", "openrouter/llama", "mistral-large", "openrouter/auto", "anthropic/claude-sonnet-4-20250514"}
ProviderNames == {"openrouter", "anthropic", "openai", "gemini", "mistral"}

\* model.startsWith(prefix), for the model names above and the prefixes generateConfig
\* tests.
StartsWith(model, prefix) ==
    CASE prefix = "anthropic/" -> model \in {"anthropic/claude", "anthropic/claude-sonnet-4-20250514"}
      [] prefix = "openai/" -> model = "openai/gpt"
      [] prefix = "gpt-" -> model = "gpt-4"
      [] prefix = "openrouter/" -> model \in {"openrouter/llama", "openrouter/auto"}
      [] OTHER -> FALSE

\* a || b for strings: b when a is undefined (or empty).
OrElse(a, b) == IF a = Undefined THEN b ELSE a

\* generateConfig, the provider: userConfig.provider || 'openrouter', replaced by the
\* namespace of the model when the model has a known one.
ProviderOf(model, provider) ==
    IF StartsWith(model, "anthropic/") THEN "anthropic"
    ELSE IF StartsWith(model, "openai/") \/ StartsWith(model, "gpt-") THEN "openai"
    ELSE IF StartsWith(model, "openrouter/") THEN "openrouter"
    ELSE OrElse(provider, "openrouter")

\* isFree ? OPENROUTER_FREE_KEY : (apiKey || ''), of generateConfig and createInstance.
KeyFor(subscription, apiKey) == IF subscription = "FREE" THEN OPENROUTER_FREE_KEY ELSE OrElse(apiKey, "")

\* A channel section as generateConfig writes it.
Channel(cred, dm, group) == [enabled |-> TRUE, cred |-> cred, dmPolicy |-> dm, groupPolicy |-> group]

\* generateConfig(subscription, userConfig): models.providers.<provider>.apiKey,
\* agents.defaults.model.primary and the channels; it sets no gateway section.
generateConfig(subscription, userConfig) ==
    LET model == OrElse(userConfig.model, IF subscription = "FREE" THEN "openrouter/auto" ELSE "anthropic/claude-sonnet-4-20250514")
    IN  [EmptyDoc EXCEPT
            !.provider = ProviderOf(model, userConfig.provider),
            !.apiKey = KeyFor(subscription, userConfig.apiKey),
            !.primary = model,
            !.telegram = IF userConfig.telegram # Undefined THEN Channel(userConfig.telegram, "pairing", "allowlist") ELSE NoChannel,
            !.discord = IF userConfig.discord # Undefined THEN Channel(userConfig.discord, "pairing", "disabled") ELSE NoChannel]

\* resolveAuthFlags(provider, apiKey): --auth-choice and the key flag of the provider,
\* those of openrouter for a provider the map does not know.
resolveAuthFlags(provider, apiKey) ==
    IF apiKey \in {Undefined, ""} THEN [choice |-> "skip", flag |-> "", key |-> Undefined]
    ELSE CASE OrElse(provider, "openrouter") = "anthropic" -> [choice |-> "apiKey", flag |-> "--anthropic-api-key", key |-> apiKey]
           [] OrElse(provider, "openrouter") = "openai" -> [choice |-> "openai-api-key", flag |-> "--openai-api-key", key |-> apiKey]
           [] OrElse(provider, "openrouter") = "gemini" -> [choice |-> "gemini-api-key", flag |-> "--gemini-api-key", key |-> apiKey]
           [] OTHER -> [choice |-> "openrouter-api-key", flag |-> "--openrouter-api-key", key |-> apiKey]

\* createInstance, lines 54-62: provider, apiKey and the onboarding flags.
OnboardingChoice(subscription, opts) ==
    LET provider == OrElse(opts.provider, "openrouter")
        apiKey == KeyFor(subscription, opts.apiKey)
        flags == resolveAuthFlags(provider, apiKey)
    IN  [provider |-> provider, apiKey |-> apiKey, choice |-> flags.choice, flag |-> flags.flag, key |-> flags.key]

\* The options of a create request: provider, apiKey, model (req.body).
CreateOptions ==
    {[EmptyConfig EXCEPT !.model = m, !.provider = p, !.apiKey = k] :
        m \in {"anthropic/claude", "openai/gpt", "gpt-4", "openrouter/llama", "mistral-large", Undefined}, p \in ProviderNames \cup {Undefined}, k \in {Undefined, UserKey}}

\* The configuration of an instance is materialized for a tenant of the given tier.
Materialize(subscription, opts) ==
    /\ mat.pc = "idle"
    /\ mat' = [pc |-> "done", tier |-> subscription, opts |-> opts,
               cfg |-> generateConfig(subscription, opts), boot |-> OnboardingChoice(subscription, opts)]
    /\ UNCHANGED <<file, snapshot, restarts, up>>
    /\ UNCHANGED <<imVars, gwVars, exVars>>

MaterializeNext == \E subscription \in Tiers, opts \in CreateOptions : Materialize(subscription, opts)

MaterializeSpec == Init /\ [][MaterializeNext]_vars

\* JSON.stringify of a ClawConfig: its defined members, as <<name, value>>; a member
\* that is undefined is left out of the text.
Stringify(cfg) == {<<f, cfg[f]>> : f \in {g \in CfgFields : cfg[g] # Undefined}}

\* instance.configJson ? JSON.parse(instance.configJson) : {}
Parse(json) ==
    [f \in CfgFields |-> IF \E p \in json : p[1] = f THEN (CHOOSE p \in json : p[1] = f)[2] ELSE Undefined]

\* The config route: { ...existingConfig, ...userConfig, channels: { ...existingConfig.
\* channels, ...userConfig.channels } }: a member of the body replaces the stored one.
RouteMerge(existingConfig, userConfig) ==
    [f \in CfgFields |-> IF userConfig[f] # Undefined THEN userConfig[f] ELSE existingConfig[f]]

\* readContainerConfig on the output of cat: the document, or {} when the output has
\* no '{' (no such file) or JSON.parse throws.
ParseOutput(f) == IF f.exists /\ f.parses THEN f.doc ELSE EmptyDoc

\* updateInstanceConfig, lines 509-542: the merge of userConfig into the document read.
MergeIntoExisting(existing, userConfig) ==
    [existing EXCEPT
        !.telegram = IF userConfig.telegram # Undefined
                     THEN Channel(userConfig.telegram, OrElse(existing.telegram.dmPolicy, "pairing"), OrElse(existing.telegram.groupPolicy, "allowlist"))
                     ELSE @,
        !.bind = "lan",
        !.discord = IF userConfig.discord # Undefined
                    THEN Channel(userConfig.discord, "pairing", "disabled")
                    ELSE @,
        !.primary = IF userConfig.model # Undefined THEN userConfig.model ELSE @]

\* An update that stores the snapshot before it writes the file.
StepAfter_PersistFirst(pc) ==
    CASE pc = "read" -> "persist"
      [] pc = "persist" -> "write"
      [] pc = "write" -> "restart"
      [] OTHER -> "done"

\* The order of the awaits of updateInstanceConfig: readContainerConfig,
\* writeContainerConfig, prisma.instance.update, container.restart.
StepAfter(pc) ==
    CASE pc = "read" -> "write"
      [] pc = "write" -> "persist"
      [] pc = "persist" -> "restart"
      [] OTHER -> "done"

\* What the first boot of the container writes: `openclaw onboard` with the auth flags,
\* --gateway-token and --gateway-bind lan of createInstance.
Onboarded(boot) ==
    [EmptyDoc EXCEPT !.token = GatewayToken, !.bind = "lan", !.apiKey = boot.key,
                     !.provider = IF boot.key = Undefined THEN Undefined ELSE boot.provider]

\* The same document after channels were set up from inside the container, with
\* policies of the operator's choice.
OnboardedWithChannels(boot) ==
    [Onboarded(boot) EXCEPT !.telegram = Channel(BotToken, "open", "open"), !.discord = Channel(BotToken, "open", "allowlist")]

\* The create requests the instance may come from: a FREE tenant with no options, and
\* a PRO tenant with its own key and model.
SampleCreates ==
    {<<"FREE", EmptyConfig>>, <<"PRO", [EmptyConfig EXCEPT !.apiKey = UserKey, !.model = "anthropic/claude"]>>}

\* The states of openclaw.json an update can meet, for an instance createInstance
\* made: not written yet (ContainerOnboard writes it), written and since extended
\* inside the container, or holding the onboarded values in a text that JSON.parse
\* rejects (doc is what the file holds, parses whether line 478 can read it).
FilesAfterCreate(boot) ==
    {NoFile,
     [exists |-> TRUE, parses |-> TRUE, doc |-> OnboardedWithChannels(boot)],
     [exists |-> TRUE, parses |-> FALSE, doc |-> Onboarded(boot)]}

\* An instance as createInstance leaves it: configJson is JSON.stringify({ provider,
\* model: opts.model }); its container is up and the file is in one of its states.
InitConfig ==
    /\ InitManager /\ InitGateway /\ InitExec
    /\ \E c \in SampleCreates :
          /\ mat = [pc |-> "done", tier |-> c[1], opts |-> c[2], cfg |-> generateConfig(c[1], c[2]), boot |-> OnboardingChoice(c[1], c[2])]
          /\ snapshot = Stringify([EmptyConfig EXCEPT !.provider = OnboardingChoice(c[1], c[2]).provider, !.model = c[2].model])
          /\ file \in FilesAfterCreate(OnboardingChoice(c[1], c[2]))
    /\ restarts = 0
    /\ up = [k \in Updates |-> IdleUpdate]

\* Bodies of PUT /:instanceId/config that pass configSchema: a model with the
\* tenant's own API key, or the bot token of one channel.
Bodies ==
    {[EmptyConfig EXCEPT !.model = "openai/gpt", !.apiKey = UserKey],
     [EmptyConfig EXCEPT !.telegram = BotToken], [EmptyConfig EXCEPT !.discord = BotToken]}

\* updateInstanceConfig throws, or returns: the route answers 500 or success, and the
\* handler's locals are gone.
Answer(k, resp) ==
    [up EXCEPT ![k] = [IdleUpdate EXCEPT !.pc = "done", !.resp = resp, !.readOk = up[k].readOk, !.wrote = up[k].wrote,
                                         !.persisted = up[k].persisted, !.restarted = up[k].restarted]]

\* configRouter.put: findFirst, configSchema.parse, the merge with the stored
\* snapshot, and the call of updateInstanceConfig(instance, mergedConfig).
UpdateBegin(k, body) ==
    /\ up[k].pc = "idle"
    /\ \A j \in Updates : j < k => up[j].pc # "idle"
    /\ up' = [up EXCEPT ![k] = [IdleUpdate EXCEPT !.pc = "read", !.merged = RouteMerge(Parse(snapshot), body), !.before = snapshot]]
    /\ UNCHANGED <<mat, file, snapshot, restarts>>
    /\ UNCHANGED <<imVars, gwVars, exVars>>

\* readContainerConfig: executeInContainer(cat) returns its output; the merge follows
\* in memory.
UpdateRead(k) ==
    /\ up[k].pc = "read"
    /\ up' = [up EXCEPT ![k].pc = StepAfter("read"), ![k].readOk = TRUE, ![k].existing = ParseOutput(file),
                        ![k].doc = MergeIntoExisting(ParseOutput(file), up[k].merged)]
    /\ UNCHANGED <<mat, file, snapshot, restarts>>
    /\ UNCHANGED <<imVars, gwVars, exVars>>

\* readContainerConfig: executeInContainer throws (outside the try block).
UpdateReadFail(k) ==
    /\ up[k].pc = "read"
    /\ up' = Answer(k, "500")
    /\ UNCHANGED <<mat, file, snapshot, restarts>>
    /\ UNCHANGED <<imVars, gwVars, exVars>>

\* writeContainerConfig: the heredoc replaces the file by the merged document.
UpdateWrite(k) ==
    /\ up[k].pc = "write"
    /\ file' = [exists |-> TRUE, parses |-> TRUE, doc |-> up[k].doc]
    /\ up' = [up EXCEPT ![k].pc = StepAfter("write"), ![k].wrote = TRUE]
    /\ UNCHANGED <<mat, snapshot, restarts>>
    /\ UNCHANGED <<imVars, gwVars, exVars>>

\* writeContainerConfig: executeInContainer throws.
UpdateWriteFail(k) ==
    /\ up[k].pc = "write"
    /\ up' = Answer(k, "500")
    /\ UNCHANGED <<mat, file, snapshot, restarts>>
    /\ UNCHANGED <<imVars, gwVars, exVars>>

\* prisma.instance.update({ data: { configJson: JSON.stringify(userConfig) } }).
UpdatePersist(k) ==
    /\ up[k].pc = "persist"
    /\ snapshot' = Stringify(up[k].merged)
    /\ up' = [up EXCEPT ![k].pc = StepAfter("persist"), ![k].persisted = TRUE]
    /\ UNCHANGED <<mat, file, restarts>>
    /\ UNCHANGED <<imVars, gwVars, exVars>>

\* container.restart() succeeds; the route answers { success: true }.
UpdateRestart(k) ==
    /\ up[k].pc = "restart"
    /\ restarts' = restarts + 1
    /\ up' = IF StepAfter("restart") = "done" THEN [Answer(k, "200") EXCEPT ![k].restarted = TRUE]
             ELSE [up EXCEPT ![k].pc = StepAfter("restart"), ![k].restarted = TRUE]
    /\ UNCHANGED <<mat, file, snapshot>>
    /\ UNCHANGED <<imVars, gwVars, exVars>>

\* container.restart() throws.
UpdateRestartFail(k) ==
    /\ up[k].pc = "restart"
    /\ up' = Answer(k, "500")
    /\ UNCHANGED <<mat, file, snapshot, restarts>>
    /\ UNCHANGED <<imVars, gwVars, exVars>>

\* The container's entrypoint on its first boot: the file does not exist, onboarding
\* writes it.
ContainerOnboard ==
    /\ ~file.exists
    /\ file' = [exists |-> TRUE, parses |-> TRUE, doc |-> Onboarded(mat.boot)]
    /\ UNCHANGED <<mat, snapshot, restarts, up>>
    /\ UNCHANGED <<imVars, gwVars, exVars>>

ConfigNext ==
    \/ \E k \in Updates, body \in Bodies : UpdateBegin(k, body)
    \/ \E k \in Updates : UpdateRead(k)
    \/ \E k \in Updates : UpdateReadFail(k)
    \/ \E k \in Updates : UpdateWrite(k)
    \/ \E k \in Updates : UpdateWriteFail(k)
    \/ \E k \in Updates : UpdatePersist(k)
    \/ \E k \in Updates : UpdateRestart(k)
    \/ \E k \in Updates : UpdateRestartFail(k)
    \/ ContainerOnboard

ConfigSpec == InitConfig /\ [][ConfigNext]_vars

(***************************************************************************)
(* Part IV.  Claims.                                                       *)
(***************************************************************************)

\* C28: on tier FREE, for every choice of model, provider and apiKey, the key in the
\* materialized configuration and in the onboarding flags is the pooled key and never
\* the tenant's; with no explicit model the provider is openrouter.
C28_FreeTierPooledKey ==
    (mat.pc = "done" /\ mat.tier = "FREE")
        => /\ mat.cfg.apiKey = OPENROUTER_FREE_KEY /\ mat.cfg.apiKey # UserKey
           /\ mat.boot.key = OPENROUTER_FREE_KEY /\ mat.boot.key # UserKey
           /\ mat.opts.model = Undefined => (mat.cfg.provider = "openrouter" /\ mat.boot.provider = "openrouter")

\* The part of C28 that holds: the pooled key, and never the tenant's, is in both
\* places, and the provider of the document generateConfig returns is openrouter when
\* no model is given.
C28_PooledKeyOnly ==
    (mat.pc = "done" /\ mat.tier = "FREE")
        => /\ mat.cfg.apiKey = OPENROUTER_FREE_KEY /\ mat.cfg.apiKey # UserKey
           /\ mat.boot.key = OPENROUTER_FREE_KEY /\ mat.boot.key # UserKey
           /\ mat.opts.model = Undefined => mat.cfg.provider = "openrouter"
\* The update calls whose writeContainerConfig throws in this step.
WriteFails == {k \in Updates : up[k].pc = "write" /\ up'[k].pc = "done"}

RestartFails == {k \in Updates : up[k].pc = "restart" /\ up'[k].pc = "done" /\ ~up'[k].restarted}

\* C25: when the container restart fails the update reports failure and the persisted
\* snapshot is the one the Instance had before the call.
C25_RestartFailureKeepsRecord ==
    [][\A k \in RestartFails : up'[k].resp = "500" /\ snapshot' = up[k].before]_vars

\* The part of C25 that holds: a failed restart is reported as a failure.
C25_RestartFailureReported ==
    [][\A k \in RestartFails : up'[k].resp = "500"]_vars

\* C26: a failure to read the container's current configuration is not fatal: every
\* update goes on from the read to the write, with the empty document as the existing
\* one when the read gave no parseable document.
C26_ReadFailureNotFatal ==
    [][\A k \in Updates :
          (up[k].pc = "read" /\ up'[k] # up[k])
              => /\ up'[k].pc = "write"
                 /\ ~(file.exists /\ file.parses) => up'[k].existing = EmptyDoc]_vars

\* The part of C26 that holds: when cat delivers output that holds no parseable
\* document, the existing document is taken as empty and the update goes on to write.
C26_UnparseableIsEmpty ==
    [][\A k \in Updates :
          (up[k].pc = "read" /\ up'[k].readOk /\ ~(file.exists /\ file.parses))
              => (up'[k].pc = "write" /\ up'[k].existing = EmptyDoc)]_vars

\* The policy a merge must write: the one already present, the default where absent.
Kept(policy, default) == IF policy = Undefined THEN default ELSE policy

\* C27: in the document an update writes, for each of telegram and discord that the
\* update supplies credentials for, dmPolicy and groupPolicy are those of the document
\* read when present there, and the defaults (telegram: pairing / allowlist; discord:
\* pairing / disabled) where absent.
C27_MergeKeepsPolicies ==
    \A k \in Updates :
        up[k].wrote =>
            /\ up[k].merged.telegram # Undefined =>
                  /\ up[k].doc.telegram.dmPolicy = Kept(up[k].existing.telegram.dmPolicy, "pairing")
                  /\ up[k].doc.telegram.groupPolicy = Kept(up[k].existing.telegram.groupPolicy, "allowlist")
            /\ up[k].merged.discord # Undefined =>
                  /\ up[k].doc.discord.dmPolicy = Kept(up[k].existing.discord.dmPolicy, "pairing")
                  /\ up[k].doc.discord.groupPolicy = Kept(up[k].existing.discord.groupPolicy, "disabled")

\* The part of C27 that holds: the policies of telegram.
C27_TelegramPoliciesKept ==
    \A k \in Updates :
        (up[k].wrote /\ up[k].merged.telegram # Undefined) =>
            /\ up[k].doc.telegram.dmPolicy = Kept(up[k].existing.telegram.dmPolicy, "pairing")
            /\ up[k].doc.telegram.groupPolicy = Kept(up[k].existing.telegram.groupPolicy, "allowlist")

\* C29: the persisted snapshot never contains the gateway token or an API key, pooled
\* or supplied by the tenant.
C29_SnapshotHoldsNoSecret ==
    \A p \in snapshot : p[2] \notin {GatewayToken, OPENROUTER_FREE_KEY, UserKey}

\* The part of C29 that holds: neither the gateway token nor the pooled key is in the
\* snapshot, and no key at all in the snapshot createInstance stores.
C29_NoContainerSecret ==
    /\ \A p \in snapshot : p[2] \notin {GatewayToken, OPENROUTER_FREE_KEY}
    /\ (\A k \in Updates : ~up[k].persisted) => \A p \in snapshot : p[2] # UserKey

\* The updates whose writeContainerConfig replaces the file in this step.
Writes == {k \in Updates : up[k].pc = "write" /\ up'[k].wrote}

\* What a write of update k keeps of the document d the container held: the gateway
\* token, the auth section, and every section userConfig does not address.
KeepsOf(k, d) ==
    /\ file'.doc.token = d.token
    /\ file'.doc.provider = d.provider /\ file'.doc.apiKey = d.apiKey
    /\ up[k].merged.telegram = Undefined => file'.doc.telegram = d.telegram
    /\ up[k].merged.discord = Undefined => file'.doc.discord = d.discord
    /\ up[k].merged.model = Undefined => file'.doc.primary = d.primary

\* C39: a config update never discards what the container's file holds: the file it
\* writes has the gateway.auth.token and every section the update did not address as
\* the file had them before the write, also when the file could not be parsed.
C39_UpdateKeepsContainerValues ==
    [][\A k \in Writes : file.exists => KeepsOf(k, file.doc)]_vars

\* The part of C39 that holds: an update that parsed the file and writes it back
\* before anything else wrote it keeps the token and the sections it did not address.
C39_ParsedFileKept ==
    [][\A k \in Writes : (file.exists /\ file.parses /\ up[k].existing = file.doc) => KeepsOf(k, file.doc)]_vars


====
